---- MODULE Spec2Model ----
(***************************************************************************)
(* A model of the LangVoice JS SDK: the request models (models.ts), the    *)
(* error hierarchy (exceptions.ts), the HTTP client (client.ts) and the    *)
(* four tool adapters (generic, OpenAI, LangChain, AutoGen).  A behaviour  *)
(* is one invocation of one entry point, from the call to its result.      *)
(*                                                                         *)
(* Conventions.  A text is represented by its length in UTF-16 code units  *)
(* (the only thing the code inspects).  A speed is a JS number in          *)
(* hundredths (0.5 is 50, 1.0 is 100, 2.0 is 200), or NaN, or undefined.   *)
(* A header value is a sequence of one-character strings.  A parsed number *)
(* is num/den with den a power of ten.                                     *)
(***************************************************************************)
EXTENDS Integers, Sequences, FiniteSets, TLC

VARIABLES
    ctor,       \* the last `new LangVoiceClient(options)`: its inputs and outcome
    entry,      \* the entry point of the invocation in progress
    op,         \* the client operation it runs
    args,       \* the arguments the caller passed
    call,       \* what else the caller chose: the tool name, the adapter's options
    pc,         \* the position of the invocation
    timer,      \* the timeout timer of the request: none / armed / cleared / fired
    requests,   \* the number of fetch() calls issued by this invocation
    wire,       \* the request last handed to fetch()
    resp,       \* the response fetch() resolved with
    cause,      \* what ended the HTTP exchange
    raised,     \* the error raised inside the try block of request / requestBinary
    outcome,    \* the outcome of the client operation
    result,     \* what the adapter entry point returned
    files,      \* the file system: the bytes stored at each path
    written,    \* how the writeFileSync of this invocation went: none / ok / failed
    saved,      \* what saveAudio / saveAudioFromResult returned: none / true / false
    tasks,      \* the calls in progress at once on one client, in the order they were made
    buffer      \* what getAudioBuffer returned: the bytes, null, or not called

vars == <<ctor, entry, op, args, call, pc, timer, requests, wire, resp, cause, raised,
          outcome, result, files, written, saved, tasks, buffer>>

-----------------------------------------------------------------------------
(* JavaScript values *)

Undef == "<undefined>"

Num(n) == [t |-> "num", n |-> n]
NaN == [t |-> "nan", n |-> 0]
NoNum == [t |-> "undefined", n |-> 0]

\* a || b on string | undefined
StrOr(a, b) == IF a = Undef \/ a = "" THEN b ELSE a

\* a || b on number | undefined: 0, NaN and undefined are falsy
NumOr(a, b) == IF a.t = "undefined" \/ a.t = "nan" \/ (a.t = "num" /\ a.n = 0) THEN b ELSE a

\* a ?? b on number | undefined
NumNullish(a, b) == IF a.t = "undefined" THEN b ELSE a

\* a < k and a > k on numbers: every comparison with NaN is false
NumLess(a, k) == a.t = "num" /\ a.n < k
NumGreater(a, k) == a.t = "num" /\ a.n > k

Str(len) == [t |-> "str", len |-> len]

-----------------------------------------------------------------------------
(* exceptions.ts *)

NoError == [cls |-> "none", name |-> "none", message |-> "", statusCode |-> 0]

\* a plain Error, or a runtime error (TypeError, SyntaxError, DOMException AbortError)
PlainError(name, message) ==
    [cls |-> name, name |-> name, message |-> message, statusCode |-> 0]

LangVoiceError(cls, message, statusCode) ==
    [cls |-> cls, name |-> cls, message |-> message, statusCode |-> statusCode]

AuthenticationError(message) == LangVoiceError("AuthenticationError", message, 401)
RateLimitError(message) == LangVoiceError("RateLimitError", message, 429)
ValidationError(message) == LangVoiceError("ValidationError", message, 400)
APIError(message, statusCode) == LangVoiceError("APIError", message, statusCode)

-----------------------------------------------------------------------------
(* models.ts: request models *)

MaxTextLen == 5000
MinSpeed == 50
MaxSpeed == 200
DefaultSpeed == 100

NoRequest == [text |-> Str(0), voice |-> Undef, language |-> Undef, speed |-> NoNum]

Thrown(e) == [ok |-> FALSE, err |-> e, req |-> NoRequest]
Built(r) == [ok |-> TRUE, err |-> NoError, req |-> r]

TextCheck(text) ==
    IF text.t # "str" \/ text.len = 0 THEN PlainError("Error", "Text is required")
    ELSE IF text.len > MaxTextLen
         THEN PlainError("Error", "Text must be 5000 characters or less")
         ELSE NoError

SpeedCheck(speed) ==
    IF NumLess(speed, MinSpeed) \/ NumGreater(speed, MaxSpeed)
    THEN PlainError("Error", "Speed must be between 0.5 and 2.0")
    ELSE NoError

\* new GenerateRequest(data).toJSON()
GenerateRequest(data) ==
    IF TextCheck(data.text) # NoError THEN Thrown(TextCheck(data.text))
    ELSE LET speed == NumNullish(data.speed, Num(DefaultSpeed))
         IN  IF SpeedCheck(speed) # NoError THEN Thrown(SpeedCheck(speed))
             ELSE Built([text |-> data.text,
                         voice |-> StrOr(data.voice, "heart"),
                         language |-> StrOr(data.language, "american_english"),
                         speed |-> speed])

\* new MultiVoiceRequest(data).toJSON(): no voice field
MultiVoiceRequest(data) ==
    IF TextCheck(data.text) # NoError THEN Thrown(TextCheck(data.text))
    ELSE LET speed == NumNullish(data.speed, Num(DefaultSpeed))
         IN  IF SpeedCheck(speed) # NoError THEN Thrown(SpeedCheck(speed))
             ELSE Built([text |-> data.text,
                         voice |-> Undef,
                         language |-> StrOr(data.language, "american_english"),
                         speed |-> speed])

-----------------------------------------------------------------------------
(* client.ts: header parsing *)

Digits == {"0", "1", "2", "3", "4", "5", "6", "7", "8", "9"}

DigitVal(c) ==
    CASE c = "0" -> 0 [] c = "1" -> 1 [] c = "2" -> 2 [] c = "3" -> 3 [] c = "4" -> 4
      [] c = "5" -> 5 [] c = "6" -> 6 [] c = "7" -> 7 [] c = "8" -> 8 [] c = "9" -> 9

\* headers.get(name) returns null for a missing header
NullHeader == <<"<null>">>

NoValueNum == [t |-> "undefined", num |-> 0, den |-> 1]
NaNValue == [t |-> "nan", num |-> 0, den |-> 1]

RECURSIVE Pow10(_)
Pow10(k) == IF k = 0 THEN 1 ELSE 10 * Pow10(k - 1)

\* the double num/den, den a power of ten, in lowest such terms (2.50 is 2.5)
RECURSIVE Normalize(_, _)
Normalize(num, den) ==
    IF den > 1 /\ num % 10 = 0 THEN Normalize(num \div 10, den \div 10)
    ELSE [t |-> "num", num |-> num, den |-> den]

\* the number of consecutive decimal digits of s from position i on
RECURSIVE DigitRun(_, _)
DigitRun(s, i) == IF i <= Len(s) /\ s[i] \in Digits THEN 1 + DigitRun(s, i + 1) ELSE 0

RECURSIVE DigitsValue(_)
DigitsValue(d) ==
    IF d = <<>> THEN 0
    ELSE 10 * DigitsValue(SubSeq(d, 1, Len(d) - 1)) + DigitVal(d[Len(d)])

\* String.prototype.replace(c, ''): removes the first occurrence of c only
ReplaceFirst(s, c) ==
    IF \E i \in 1..Len(s) : s[i] = c
    THEN LET i == CHOOSE k \in 1..Len(s) : s[k] = c /\ \A j \in 1..(k - 1) : s[j] # c
         IN  SubSeq(s, 1, i - 1) \o SubSeq(s, i + 1, Len(s))
    ELSE s

\* parseFloat(s): the longest prefix  [+-] digits [. digits]  with at least one
\* digit; NaN when there is none (exponents, Infinity and white space are not
\* in the modelled alphabet)
ParseFloat(s) ==
    LET sg == IF Len(s) >= 1 /\ s[1] \in {"+", "-"} THEN 1 ELSE 0
        sign == IF sg = 1 /\ s[1] = "-" THEN -1 ELSE 1
        ni == DigitRun(s, sg + 1)
        dot == Len(s) >= sg + ni + 1 /\ s[sg + ni + 1] = "."
        nf == IF dot THEN DigitRun(s, sg + ni + 2) ELSE 0
        int == DigitsValue(SubSeq(s, sg + 1, sg + ni))
        frac == DigitsValue(SubSeq(s, sg + ni + 2, sg + ni + 1 + nf))
    IN  IF ni + nf = 0 THEN NaNValue
        ELSE Normalize(sign * (int * Pow10(nf) + frac), Pow10(nf))

\* parseInt(s, 10): the longest prefix  [+-] digits  with at least one digit
ParseInt(s) ==
    LET sg == IF Len(s) >= 1 /\ s[1] \in {"+", "-"} THEN 1 ELSE 0
        sign == IF sg = 1 /\ s[1] = "-" THEN -1 ELSE 1
        ni == DigitRun(s, sg + 1)
    IN  IF ni = 0 THEN NaNValue
        ELSE [t |-> "num", num |-> sign * DigitsValue(SubSeq(s, sg + 1, sg + ni)), den |-> 1]

parseFloatHeader(value) ==
    IF value = NullHeader \/ value = <<>> THEN NoValueNum
    ELSE LET parsed == ParseFloat(ReplaceFirst(value, "s"))
         IN  IF parsed.t = "nan" THEN NoValueNum ELSE parsed

\* parseIntHeader that parses like parseFloatHeader
parseIntHeader_AsFloat(value) ==
    IF value = NullHeader \/ value = <<>> THEN NoValueNum
    ELSE LET parsed == ParseFloat(value)
         IN  IF parsed.t = "nan" THEN NoValueNum ELSE parsed

parseIntHeader(value) ==
    IF value = NullHeader \/ value = <<>> THEN NoValueNum
    ELSE LET parsed == ParseInt(value)
         IN  IF parsed.t = "nan" THEN NoValueNum ELSE parsed

-----------------------------------------------------------------------------
(* client.ts: construction *)

NoProcess == "<no process>"

NoClient == [apiKey |-> "", baseUrl |-> "", timeout |-> 0]

DefaultTimeout == 60000

\* getEnvApiKey that never reads the environment
getEnvApiKey_Ignored(env) == ""

\* getEnvApiKey(): env is the value of process.env.LANGVOICE_API_KEY, or
\* NoProcess where there is no process object
getEnvApiKey(env) == IF env = NoProcess THEN "" ELSE StrOr(env, "")

\* new LangVoiceClient(options)
Constructor(options, env) ==
    LET apiKey == StrOr(options.apiKey, getEnvApiKey(env))
    IN  IF apiKey = ""
        THEN [ok |-> FALSE,
              err |-> AuthenticationError("API key is required. Pass apiKey in options or set LANGVOICE_API_KEY environment variable."),
              client |-> NoClient]
        ELSE [ok |-> TRUE, err |-> NoError,
              client |-> [apiKey |-> apiKey,
                          baseUrl |-> StrOr(options.baseUrl, "https://www.langvoice.pro/api"),
                          timeout |-> NumOr(options.timeout, Num(DefaultTimeout)).n]]

-----------------------------------------------------------------------------
(* client.ts: response errors *)

\* response.ok
Ok(status) == status >= 200 /\ status <= 299

\* the error body: JSON with a non-empty error string, JSON without one, or
\* a body response.json() rejects on
ErrorBodies == {"json-error", "json-no-error", "not-json"}

ApiErrorText(status) == "API error: " \o ToString(status)

\* handleResponseErrors without its case for 400
handleResponseErrors_No400(status, statusText, body) ==
    LET errorMessage ==
            IF body = "json-error" THEN "server error message"
            ELSE IF body = "json-no-error" THEN ApiErrorText(status)
            ELSE StrOr(statusText, ApiErrorText(status))
    IN  CASE status = 401 -> AuthenticationError(errorMessage)
          [] status = 429 -> RateLimitError(errorMessage)
          [] OTHER -> APIError(errorMessage, status)

\* handleResponseErrors(response) for a response that is not ok: the error thrown
handleResponseErrors(status, statusText, body) ==
    LET errorMessage ==
            IF body = "json-error" THEN "server error message"
            ELSE IF body = "json-no-error" THEN ApiErrorText(status)
            ELSE StrOr(statusText, ApiErrorText(status))
    IN  CASE status = 401 -> AuthenticationError(errorMessage)
          [] status = 429 -> RateLimitError(errorMessage)
          [] status = 400 -> ValidationError(errorMessage)
          [] OTHER -> APIError(errorMessage, status)

\* a catch block that reports every failure as a timeout
CatchClause_AlwaysTimeout(error) == APIError("Request timeout", 408)

\* the catch block of request / requestBinary: the error it throws
CatchClause(error) ==
    IF error.name = "AbortError" THEN APIError("Request timeout", 408) ELSE error

-----------------------------------------------------------------------------
(* the inputs and the remote side *)

TextLens == {0, 1, MaxTextLen, MaxTextLen + 1}
Texts == {Str(n) : n \in TextLens}
Voices == {Undef, "bella"}
Languages == {Undef, "spanish"}
Speeds == {NoNum, NaN, Num(0), Num(MinSpeed - 1), Num(MinSpeed), Num(DefaultSpeed),
           Num(MaxSpeed), Num(MaxSpeed + 1)}

ApiKeyOptions == {Undef, "", "option-key"}
EnvValues == {NoProcess, Undef, "", "env-key"}

Statuses == {200, 299, 300, 400, 401, 404, 429, 500}
StatusTexts == {"", "Status Text"}

NoHeaders == [duration |-> NullHeader, generationTime |-> NullHeader, characters |-> NullHeader]
ResponseHeaders ==
    {NoHeaders,
     [duration |-> <<"2", ".", "5", "s">>, generationTime |-> NullHeader,
      characters |-> <<"1", "0", "0">>],
     [duration |-> <<"x">>, generationTime |-> <<"0", ".", "2", "s">>,
      characters |-> <<"1", "x">>]}

AudioSamples == {<<>>, <<255, 0, 16>>}

\* every header value of at most MaxHeaderLen characters over HeaderAlphabet
MaxHeaderLen == 4
HeaderAlphabet == {"0", "1", "2", "5", ".", "s", "x"}
HeaderValues ==
    {NullHeader} \cup UNION {[1..n -> HeaderAlphabet] : n \in 0..MaxHeaderLen}

ExampleDuration == <<"2", ".", "5", "s">>
ExampleCharacters == <<"1", "0", "0">>

\* a JSON body of a list endpoint: the array under its key, no such key, or not JSON
\* (optional stands for the fields of VoiceData / LanguageData besides id and name)
VoiceHeart == [id |-> "heart", name |-> "Heart", optional |-> "female"]
VoiceMichael == [id |-> "michael", name |-> "Michael", optional |-> Undef]
ListSamples == {<<>>, <<VoiceHeart, VoiceMichael>>, <<VoiceMichael, VoiceHeart, VoiceMichael>>}
JsonBodies == {[kind |-> "list", items |-> l] : l \in ListSamples}
              \cup {[kind |-> "no-list", items |-> <<>>], [kind |-> "not-json", items |-> <<>>]}

\* what fetch() or a body read rejects with when the network fails
NetworkErrors == {PlainError("TypeError", "fetch failed")}

AbortError == PlainError("AbortError", "This operation was aborted")

-----------------------------------------------------------------------------
(* models.ts: GenerateResponse.toBase64 *)

B64Alphabet ==
    <<"A", "B", "C", "D", "E", "F", "G", "H", "I", "J", "K", "L", "M", "N", "O", "P",
      "Q", "R", "S", "T", "U", "V", "W", "X", "Y", "Z", "a", "b", "c", "d", "e", "f",
      "g", "h", "i", "j", "k", "l", "m", "n", "o", "p", "q", "r", "s", "t", "u", "v",
      "w", "x", "y", "z", "0", "1", "2", "3", "4", "5", "6", "7", "8", "9", "+", "/">>

\* audioData.toString('base64'): three bytes give four characters, the last
\* group is padded with "="
RECURSIVE toBase64(_)
toBase64(data) ==
    IF Len(data) = 0 THEN <<>>
    ELSE LET b1 == data[1]
             b2 == IF Len(data) >= 2 THEN data[2] ELSE 0
             b3 == IF Len(data) >= 3 THEN data[3] ELSE 0
             n == b1 * 65536 + b2 * 256 + b3
             c(k) == B64Alphabet[((n \div k) % 64) + 1]
         IN  <<c(262144), c(4096),
               IF Len(data) >= 2 THEN c(64) ELSE "=",
               IF Len(data) >= 3 THEN c(1) ELSE "=">>
             \o (IF Len(data) > 3 THEN toBase64(SubSeq(data, 4, Len(data))) ELSE <<>>)

PreviewLen == 100

\* toBase64().substring(0, 100) + '...'
Preview(data) ==
    LET s == toBase64(data)
    IN  SubSeq(s, 1, IF Len(s) < PreviewLen THEN Len(s) ELSE PreviewLen) \o <<".", ".", ".">>

-----------------------------------------------------------------------------
(* the state *)

NoArgs == [text |-> Str(0), voice |-> Undef, language |-> Undef, speed |-> NoNum]
NoOptions == [apiKey |-> Undef, baseUrl |-> Undef, timeout |-> NoNum]
NoWire == [method |-> "", url |-> "", apiKey |-> "", hasBody |-> FALSE, body |-> NoRequest]
NoJson == [kind |-> "none", items |-> <<>>]
NoResp == [status |-> 0, statusText |-> "", headers |-> NoHeaders, body |-> <<>>, json |-> NoJson]
NoValue == [audioData |-> <<>>, duration |-> NoValueNum, generationTime |-> NoValueNum,
            charactersProcessed |-> NoValueNum, list |-> <<>>]
Pending == [kind |-> "pending", err |-> NoError, value |-> NoValue]
Threw(e) == [kind |-> "threw", err |-> e, value |-> NoValue]
Returned(v) == [kind |-> "returned", err |-> NoError, value |-> v]

ClientOps == {"generate", "generateMultiVoice", "listVoices", "listLanguages"}
BinaryOps == {"generate", "generateMultiVoice"}

Method(o) == IF o \in BinaryOps THEN "POST" ELSE "GET"

Endpoint(o) ==
    CASE o = "generate" -> "/tts/generate"
      [] o = "generateMultiVoice" -> "/tts/multi-voice-text"
      [] o = "listVoices" -> "/tts/voices"
      [] o = "listLanguages" -> "/tts/languages"

\* tools/types.ts
TOOL_NAMES ==
    [TTS |-> "langvoice_text_to_speech",
     MULTI_VOICE |-> "langvoice_multi_voice_speech",
     LIST_VOICES |-> "langvoice_list_voices",
     LIST_LANGUAGES |-> "langvoice_list_languages"]

ToolNames == {TOOL_NAMES.TTS, TOOL_NAMES.MULTI_VOICE, TOOL_NAMES.LIST_VOICES,
              TOOL_NAMES.LIST_LANGUAGES}
SpeechTools == {TOOL_NAMES.TTS, TOOL_NAMES.MULTI_VOICE}

\* the client operation behind each tool
ToolOp(tool) ==
    CASE tool = TOOL_NAMES.TTS -> "generate"
      [] tool = TOOL_NAMES.MULTI_VOICE -> "generateMultiVoice"
      [] tool = TOOL_NAMES.LIST_VOICES -> "listVoices"
      [] tool = TOOL_NAMES.LIST_LANGUAGES -> "listLanguages"

\* names that are no tool; the second is a property every object inherits
UnknownNames == {"langvoice_sing", "toString"}

\* what the caller chooses besides the arguments: the tool, how the input is
\* given (an object, a raw string, a JSON string, a string that is not JSON), the
\* apiKey argument of handleOpenAIToolCall, the adapter's outputFile and autoSave
\* options and the output_file argument
\* , and whether a LangChain tool is run through call or through invoke
NoCall == [tool |-> "", input |-> "object", apiKey |-> Undef, outputFile |-> Undef,
           autoSave |-> "undefined", output_file |-> Undef, via |-> "call"]

OutputFileOptions == {Undef, "speech.mp3"}
AutoSaveOptions == {"undefined", "false"}
OutputFileArgs == {Undef, "", "call.mp3"}
ApiKeyArgs == {Undef, "arg-key"}

Paths == {"output.mp3", "speech.mp3", "call.mp3"}
Absent == <<-1>>

\* the result of an adapter entry point: an object, a JSON string (the keys
\* that survive JSON.stringify), a status string (its marker, its fixed text and
\* the values interpolated into it), or the error it threw
NoResult ==
    [shape |-> "none", keys |-> {}, success |-> FALSE, marker |-> "", error |-> "",
     message |-> "", audioBase64 |-> <<>>, audioBuffer |-> <<>>, preview |-> <<>>,
     duration |-> NoValueNum, charactersProcessed |-> NoValueNum, outputFile |-> "",
     list |-> <<>>, count |-> 0, thrown |-> NoError]

\* no call has been made on the client yet
NoTasks == <<>>

\* getAudioBuffer has not been called; getAudioBuffer returned null
NotCalled == <<-2>>
NullBuffer == <<-1>>

\* the arguments a caller can pass to a tool
ToolArgs(tool) ==
    CASE tool = TOOL_NAMES.TTS ->
            [text : Texts, voice : Voices, language : Languages, speed : Speeds]
      [] tool = TOOL_NAMES.MULTI_VOICE ->
            [text : Texts, voice : {Undef}, language : Languages, speed : Speeds]
      [] OTHER -> {NoArgs}

\* a client constructed with an explicit key, LANGVOICE_API_KEY unset
Init ==
    /\ ctor = [state |-> "ok", options |-> [NoOptions EXCEPT !.apiKey = "option-key"],
               env |-> Undef, err |-> NoError,
               client |-> Constructor([NoOptions EXCEPT !.apiKey = "option-key"], Undef).client]
    /\ entry = "none"
    /\ op = "none"
    /\ args = NoArgs
    /\ call = NoCall
    /\ pc = "idle"
    /\ timer = "none"
    /\ requests = 0
    /\ wire = NoWire
    /\ resp = NoResp
    /\ cause = "none"
    /\ raised = NoError
    /\ outcome = Pending
    /\ result = NoResult
    /\ files = [p \in Paths |-> Absent]
    /\ written = "none"
    /\ saved = "none"
    /\ tasks = NoTasks
    /\ buffer = NotCalled

-----------------------------------------------------------------------------
(* client.ts: the operations *)

\* new LangVoiceClient({apiKey}) in an environment env
Construct ==
    /\ pc = "idle"
    /\ ctor.state # "ok"
    /\ \E k \in ApiKeyOptions, env \in EnvValues :
          LET options == [apiKey |-> k, baseUrl |-> Undef, timeout |-> NoNum]
              made == Constructor(options, env)
          IN  ctor' = [state |-> IF made.ok THEN "ok" ELSE "threw", options |-> options,
                       env |-> env, err |-> made.err, client |-> made.client]
    /\ UNCHANGED <<entry, op, args, call, pc, timer, requests, wire, resp, cause, raised,
                   outcome, result, files, written, saved, tasks, buffer>>

\* the request model the operation o builds from the options it is given
BuildRequest(o, a) ==
    CASE o = "generate" -> GenerateRequest(a)
      [] o = "generateMultiVoice" -> MultiVoiceRequest(a)
      [] OTHER -> Built(NoRequest)

\* the client operation is over: a direct call returns to its caller, a call
\* made by an adapter returns to the adapter
Settle(e, out) ==
    /\ outcome' = out
    /\ pc' = IF e = "client" THEN "done" ELSE "adapter"

\* operation o of the client called with the options a by entry point e: the
\* request model is built, then request / requestBinary arms the timer and calls
\* fetch
Invoke(e, o, a, client) ==
    LET built == BuildRequest(o, a)
    IN  /\ entry' = e
        /\ op' = o
        /\ resp' = NoResp
        /\ raised' = NoError
        /\ IF built.ok
           THEN /\ timer' = "armed"
                /\ requests' = 1
                /\ wire' = [method |-> Method(o),
                            url |-> client.baseUrl \o Endpoint(o),
                            apiKey |-> client.apiKey,
                            hasBody |-> o \in BinaryOps,
                            body |-> built.req]
                /\ cause' = "none"
                /\ pc' = "fetch"
                /\ outcome' = Pending
           ELSE /\ timer' = "none"
                /\ requests' = 0
                /\ wire' = NoWire
                /\ cause' = "validation"
                /\ Settle(e, Threw(built.err))

\* a catch block that issues the request once more before giving up
Fail_Retry(error, timerNow) ==
    /\ raised' = error
    /\ IF requests < 2
       THEN /\ requests' = requests + 1
            /\ timer' = "armed"
            /\ pc' = "fetch"
            /\ UNCHANGED <<wire, outcome>>
       ELSE /\ timer' = IF timerNow = "armed" THEN "cleared" ELSE timerNow
            /\ Settle(entry, Threw(CatchClause(error)))
            /\ UNCHANGED <<requests, wire>>

\* a catch block that rethrows without clearTimeout
Fail_NoClear(error, timerNow) ==
    /\ timer' = timerNow
    /\ raised' = error
    /\ Settle(entry, Threw(CatchClause(error)))
    /\ UNCHANGED <<requests, wire>>

\* the catch block of request / requestBinary: clearTimeout, then rethrow
Fail(error, timerNow) ==
    /\ timer' = IF timerNow = "armed" THEN "cleared" ELSE timerNow
    /\ raised' = error
    /\ Settle(entry, Threw(CatchClause(error)))
    /\ UNCHANGED <<requests, wire>>

Ready == pc = "idle" /\ ctor.state = "ok"

\* client.generate(options)
Generate ==
    /\ Ready
    /\ \E a \in ToolArgs(TOOL_NAMES.TTS) :
          args' = a /\ Invoke("client", "generate", a, ctor.client)
    /\ UNCHANGED <<ctor, call, result, files, written, saved, tasks, buffer>>

\* client.generateMultiVoice(options)
GenerateMultiVoice ==
    /\ Ready
    /\ \E a \in ToolArgs(TOOL_NAMES.MULTI_VOICE) :
          args' = a /\ Invoke("client", "generateMultiVoice", a, ctor.client)
    /\ UNCHANGED <<ctor, call, result, files, written, saved, tasks, buffer>>

\* client.listVoices() and client.listLanguages()
List ==
    /\ Ready
    /\ \E o \in {"listVoices", "listLanguages"} :
          args' = NoArgs /\ Invoke("client", o, NoArgs, ctor.client)
    /\ UNCHANGED <<ctor, call, result, files, written, saved, tasks, buffer>>

\* the sample of a voice a caller passes, base64 encoded
VoiceSamples == {toBase64(<<82, 73, 70, 70>>)}

\* `new VoiceCloningRequest(...)`: client.ts imports VoiceCloningRequest from
\* ./models, and models.ts declares and exports no such class, so the binding is
\* undefined and the expression throws for every argument
VoiceCloningRequest(data) ==
    Thrown(PlainError("TypeError", "VoiceCloningRequest is not a constructor"))

\* client.generateCloned(options): the request model is constructed first, so
\* requestBinary is never reached
GenerateCloned ==
    /\ Ready
    /\ \E text \in Texts, sample \in VoiceSamples, speed \in Speeds :
          LET options == [text |-> text, voice |-> Undef, language |-> Undef,
                          speed |-> speed, voiceSampleBase64 |-> sample]
              built == VoiceCloningRequest([text |-> options.text,
                                            voice_sample_base64 |-> options.voiceSampleBase64,
                                            speed |-> options.speed])
          IN  /\ ~built.ok
              /\ args' = options
              /\ entry' = "client"
              /\ op' = "generateCloned"
              /\ resp' = NoResp
              /\ raised' = NoError
              /\ timer' = "none"
              /\ requests' = 0
              /\ wire' = NoWire
              /\ cause' = "import"
              /\ Settle("client", Threw(built.err))
    /\ UNCHANGED <<ctor, call, result, files, written, saved, tasks, buffer>>

-----------------------------------------------------------------------------
(* the HTTP exchange *)

\* the timer fires while fetch is pending: controller.abort() rejects fetch
Timeout ==
    /\ pc = "fetch"
    /\ timer = "armed"
    /\ cause' = "timeout"
    /\ Fail(AbortError, "fired")
    /\ UNCHANGED <<ctor, entry, op, args, call, resp, result, files, written, saved, tasks, buffer>>

\* fetch rejects: the request never got a response
FetchRejects ==
    /\ pc = "fetch"
    /\ \E e \in NetworkErrors : Fail(e, timer)
    /\ cause' = "network"
    /\ UNCHANGED <<ctor, entry, op, args, call, resp, result, files, written, saved, tasks, buffer>>

\* fetch resolves with the status line and headers: clearTimeout, then
\* handleResponseErrors or the body read starts.  The code reads the status text
\* of an error response only and the metadata headers of a 2xx response only,
\* so the other one is left at its empty value
FetchResolves ==
    /\ pc = "fetch"
    /\ \E st \in Statuses, tx \in StatusTexts, h \in ResponseHeaders :
          /\ IF Ok(st) THEN tx = "" ELSE h = NoHeaders
          /\ resp' = [NoResp EXCEPT !.status = st, !.statusText = tx, !.headers = h]
          /\ pc' = IF Ok(st) THEN "body" ELSE "errorBody"
    /\ timer' = "cleared"
    /\ UNCHANGED <<ctor, entry, op, args, call, requests, wire, cause, raised, outcome,
                   result, files, written, saved, tasks, buffer>>

\* handleResponseErrors has read the error body (or failed to) and throws
ErrorBody ==
    /\ pc = "errorBody"
    /\ \E b \in ErrorBodies :
          Fail(handleResponseErrors(resp.status, resp.statusText, b), timer)
    /\ cause' = "status"
    /\ UNCHANGED <<ctor, entry, op, args, call, resp, result, files, written, saved, tasks, buffer>>

\* new GenerateResponse({audioData, duration, generationTime, charactersProcessed})
GenerateResponse(data, headers) ==
    [audioData |-> data,
     duration |-> parseFloatHeader(headers.duration),
     generationTime |-> parseFloatHeader(headers.generationTime),
     charactersProcessed |-> parseIntHeader(headers.characters),
     list |-> <<>>]

\* new VoicesResponse(data).voices, new LanguagesResponse(data).languages
ListResponse(items) ==
    [NoValue EXCEPT !.list = [i \in 1..Len(items) |->
                                 [id |-> items[i].id, name |-> items[i].name,
                                  optional |-> items[i].optional]]]

\* response.arrayBuffer() resolves: generate / generateMultiVoice return
BinaryBody ==
    /\ pc = "body"
    /\ op \in BinaryOps
    /\ \E data \in AudioSamples :
          /\ resp' = [resp EXCEPT !.body = data]
          /\ Settle(entry, Returned(GenerateResponse(data, resp.headers)))
    /\ cause' = "ok"
    /\ UNCHANGED <<ctor, entry, op, args, call, timer, requests, wire, raised, result,
                   files, written, saved, tasks, buffer>>

\* response.json() settles: listVoices / listLanguages return, or throw
JsonBody ==
    /\ pc = "body"
    /\ op \notin BinaryOps
    /\ \E data \in JsonBodies :
          /\ resp' = [resp EXCEPT !.json = data]
          /\ IF data.kind = "list"
             THEN /\ Settle(entry, Returned(ListResponse(data.items)))
                  /\ cause' = "ok"
                  /\ UNCHANGED <<timer, requests, wire, raised>>
             ELSE IF data.kind = "no-list"
             THEN /\ Settle(entry, Threw(PlainError("TypeError",
                                    "Cannot read properties of undefined (reading 'map')")))
                  /\ cause' = "shape"
                  /\ UNCHANGED <<timer, requests, wire, raised>>
             ELSE /\ Fail(PlainError("SyntaxError", "Unexpected token in JSON"), timer)
                  /\ cause' = "network"
    /\ UNCHANGED <<ctor, entry, op, args, call, result, files, written, saved, tasks, buffer>>

\* the connection fails while the body is read
BodyFails ==
    /\ pc = "body"
    /\ \E e \in NetworkErrors : Fail(e, timer)
    /\ cause' = "network"
    /\ UNCHANGED <<ctor, entry, op, args, call, resp, result, files, written, saved, tasks, buffer>>

-----------------------------------------------------------------------------
(* the adapters: what is common *)

\* an adapter entry point hands the options to operation ToolOp(tool) of the
\* client and awaits it
Delegate(e, tool, a, options, client, c) ==
    /\ args' = a
    /\ call' = c
    /\ result' = NoResult
    /\ Invoke(e, ToolOp(tool), options, client)

\* an adapter entry point finishes without calling the client
Answer(e, a, c, r, why) ==
    /\ entry' = e
    /\ op' = "none"
    /\ args' = a
    /\ call' = c
    /\ result' = r
    /\ pc' = "done"
    /\ timer' = "none"
    /\ requests' = 0
    /\ wire' = NoWire
    /\ resp' = NoResp
    /\ cause' = why
    /\ raised' = NoError
    /\ outcome' = Pending

\* a map that turns the list around
Entries_Reversed(list) ==
    [i \in 1..Len(list) |-> [id |-> list[Len(list) + 1 - i].id,
                             name |-> list[Len(list) + 1 - i].name]]

\* voices.map((v) => ({ id: v.id, name: v.name }))
Entries(list) == [i \in 1..Len(list) |-> [id |-> list[i].id, name |-> list[i].name]]

\* JSON.stringify(result): a key whose value is undefined is left out
JsonStringify(r) ==
    [r EXCEPT !.shape = "json",
              !.keys = {k \in r.keys :
                          /\ ~(k = "duration" /\ r.duration.t = "undefined")
                          /\ ~(k = "charactersProcessed"
                                 /\ r.charactersProcessed.t = "undefined")}]

\* a failure envelope that drops the error's message
Failure_Unknown(message) ==
    [NoResult EXCEPT !.shape = "object", !.keys = {"success", "error"},
                     !.error = "Unknown error"]

\* { success: false, error: error.message }
Failure(message) ==
    [NoResult EXCEPT !.shape = "object", !.keys = {"success", "error"}, !.error = message]

\* a write that leaves the data at every path
WriteFile_Everywhere(fs, path, data) == [p \in DOMAIN fs |-> data]

\* a write that does not truncate: the data goes after what the file holds
WriteFile_Append(fs, path, data) ==
    [fs EXCEPT ![path] = IF @ = Absent THEN data ELSE @ \o data]

\* fs.writeFileSync(path, data), when it succeeds
WriteFile(fs, path, data) == [fs EXCEPT ![path] = data]

-----------------------------------------------------------------------------
(* tools/generic-tools.ts: LangVoiceToolkit *)

\* textToSpeech with another default voice
ToolkitOptions_DefaultMichael(tool, params) ==
    IF tool = TOOL_NAMES.TTS
    THEN [text |-> params.text,
          voice |-> StrOr(params.voice, "michael"),
          language |-> StrOr(params.language, "american_english"),
          speed |-> NumOr(params.speed, Num(DefaultSpeed))]
    ELSE IF tool = TOOL_NAMES.MULTI_VOICE
    THEN [text |-> params.text,
          voice |-> Undef,
          language |-> StrOr(params.language, "american_english"),
          speed |-> NumOr(params.speed, Num(DefaultSpeed))]
    ELSE NoArgs

\* the options textToSpeech and multiVoiceSpeech pass to the client
ToolkitOptions(tool, params) ==
    IF tool = TOOL_NAMES.TTS
    THEN [text |-> params.text,
          voice |-> StrOr(params.voice, "heart"),
          language |-> StrOr(params.language, "american_english"),
          speed |-> NumOr(params.speed, Num(DefaultSpeed))]
    ELSE IF tool = TOOL_NAMES.MULTI_VOICE
    THEN [text |-> params.text,
          voice |-> Undef,
          language |-> StrOr(params.language, "american_english"),
          speed |-> NumOr(params.speed, Num(DefaultSpeed))]
    ELSE NoArgs

\* what textToSpeech, multiVoiceSpeech, listVoices and listLanguages return
ToolkitResult(tool, out) ==
    IF out.kind = "threw" THEN Failure(out.err.message)
    ELSE LET ok == [NoResult EXCEPT !.shape = "object", !.success = TRUE]
         IN  CASE tool = TOOL_NAMES.TTS ->
                    [ok EXCEPT !.keys = {"success", "audioBase64", "duration",
                                         "charactersProcessed"},
                               !.audioBase64 = toBase64(out.value.audioData),
                               !.duration = out.value.duration,
                               !.charactersProcessed = out.value.charactersProcessed]
               [] tool = TOOL_NAMES.MULTI_VOICE ->
                    [ok EXCEPT !.keys = {"success", "audioBase64", "duration"},
                               !.audioBase64 = toBase64(out.value.audioData),
                               !.duration = out.value.duration]
               [] tool = TOOL_NAMES.LIST_VOICES ->
                    [ok EXCEPT !.keys = {"success", "voices"},
                               !.list = Entries(out.value.list)]
               [] tool = TOOL_NAMES.LIST_LANGUAGES ->
                    [ok EXCEPT !.keys = {"success", "languages"},
                               !.list = Entries(out.value.list)]

\* toolkit.textToSpeech(params), multiVoiceSpeech(params), listVoices(),
\* listLanguages(): up to the call of the client
ToolkitCall ==
    /\ Ready
    /\ \E tool \in ToolNames : \E a \in ToolArgs(tool) :
          Delegate("generic", tool, a, ToolkitOptions(tool, a), ctor.client,
                   [NoCall EXCEPT !.tool = tool])
    /\ UNCHANGED <<ctor, files, written, saved, tasks, buffer>>

\* toolkit.handleToolCall(toolName, args): the switch on the name
HandleToolCall ==
    /\ Ready
    /\ \E name \in ToolNames \cup UnknownNames : \E a \in ToolArgs(name) :
          LET c == [NoCall EXCEPT !.tool = name]
          IN  IF name \in ToolNames
              THEN Delegate("generic.handleToolCall", name, a, ToolkitOptions(name, a),
                            ctor.client, c)
              ELSE Answer("generic.handleToolCall", a, c,
                          Failure("Unknown tool: " \o name), "unknown")
    /\ UNCHANGED <<ctor, files, written, saved, tasks, buffer>>

\* the client operation has settled: the method builds its result
ToolkitReturn ==
    /\ pc = "adapter"
    /\ entry \in {"generic", "generic.handleToolCall"}
    /\ result' = ToolkitResult(call.tool, outcome)
    /\ pc' = "done"
    /\ UNCHANGED <<ctor, entry, op, args, call, timer, requests, wire, resp, cause, raised,
                   outcome, files, written, saved, tasks, buffer>>

-----------------------------------------------------------------------------
(* tools/openai-tools.ts: handleOpenAIToolCall *)

\* the options the cases of the switch pass to the client
OpenAIOptions(tool, a) ==
    IF tool = TOOL_NAMES.TTS
    THEN [text |-> a.text,
          voice |-> StrOr(a.voice, "heart"),
          language |-> StrOr(a.language, "american_english"),
          speed |-> NumOr(a.speed, Num(DefaultSpeed))]
    ELSE IF tool = TOOL_NAMES.MULTI_VOICE
    THEN [text |-> a.text,
          voice |-> Undef,
          language |-> StrOr(a.language, "american_english"),
          speed |-> NumOr(a.speed, Num(DefaultSpeed))]
    ELSE NoArgs

\* the ToolCallResult of each case, and of the catch block
ToolCallResult(tool, out) ==
    IF out.kind = "threw" THEN Failure(out.err.message)
    ELSE LET ok == [NoResult EXCEPT !.shape = "object", !.success = TRUE]
         IN  CASE tool = TOOL_NAMES.TTS ->
                    [ok EXCEPT !.keys = {"success", "audioBase64", "duration",
                                         "charactersProcessed"},
                               !.audioBase64 = toBase64(out.value.audioData),
                               !.duration = out.value.duration,
                               !.charactersProcessed = out.value.charactersProcessed]
               [] tool = TOOL_NAMES.MULTI_VOICE ->
                    [ok EXCEPT !.keys = {"success", "audioBase64", "duration"},
                               !.audioBase64 = toBase64(out.value.audioData),
                               !.duration = out.value.duration]
               [] tool = TOOL_NAMES.LIST_VOICES ->
                    [ok EXCEPT !.keys = {"success", "voices"},
                               !.list = Entries(out.value.list)]
               [] tool = TOOL_NAMES.LIST_LANGUAGES ->
                    [ok EXCEPT !.keys = {"success", "languages"},
                               !.list = Entries(out.value.list)]

\* handleOpenAIToolCall(toolName, args, apiKey): a client is constructed outside
\* the try block, then the switch on the name
HandleOpenAIToolCall ==
    /\ Ready
    /\ \E name \in ToolNames \cup UnknownNames, k \in ApiKeyArgs : \E a \in ToolArgs(name) :
          LET c == [NoCall EXCEPT !.tool = name, !.apiKey = k]
              made == Constructor([NoOptions EXCEPT !.apiKey = k], ctor.env)
          IN  IF ~made.ok
              THEN Answer("openai.handleOpenAIToolCall", a, c,
                          [NoResult EXCEPT !.shape = "threw", !.thrown = made.err],
                          "construction")
              ELSE IF name \in ToolNames
              THEN Delegate("openai.handleOpenAIToolCall", name, a, OpenAIOptions(name, a),
                            made.client, c)
              ELSE Answer("openai.handleOpenAIToolCall", a, c,
                          JsonStringify(Failure("Unknown tool: " \o name)), "unknown")
    /\ UNCHANGED <<ctor, files, written, saved, tasks, buffer>>

\* the client operation has settled: the result is built and stringified
OpenAIReturn ==
    /\ pc = "adapter"
    /\ entry = "openai.handleOpenAIToolCall"
    /\ result' = JsonStringify(ToolCallResult(call.tool, outcome))
    /\ pc' = "done"
    /\ UNCHANGED <<ctor, entry, op, args, call, timer, requests, wire, resp, cause, raised,
                   outcome, files, written, saved, tasks, buffer>>

-----------------------------------------------------------------------------
(* tools/openai-tools.ts: LangVoiceOpenAITools *)

\* JSON.parse(resultJson) of a string JSON.stringify made
JsonParse(r) == [r EXCEPT !.shape = "object"]

\* tools.handleCall(toolCall): JSON.parse of function.arguments, outside any try
\* block, then handleOpenAIToolCall(name, args, this.client.getApiKey())
HandleCall ==
    /\ Ready
    /\ \E name \in ToolNames \cup UnknownNames, input \in {"json", "badjson"} :
       \E a \in ToolArgs(name) :
          LET c == [NoCall EXCEPT !.tool = name, !.input = input,
                                  !.apiKey = ctor.client.apiKey]
              made == Constructor([NoOptions EXCEPT !.apiKey = ctor.client.apiKey], ctor.env)
          IN  /\ (input = "json") => a.speed.t # "nan"
              /\ (input = "badjson") => a = NoArgs
              /\ IF input = "badjson"
                 THEN Answer("openai.handleCall", a, c,
                             [NoResult EXCEPT !.shape = "threw",
                                 !.thrown = PlainError("SyntaxError",
                                                       "Unexpected token in JSON")],
                             "arguments")
                 ELSE IF ~made.ok
                 THEN Answer("openai.handleCall", a, c,
                             [NoResult EXCEPT !.shape = "threw", !.thrown = made.err],
                             "construction")
                 ELSE IF name \in ToolNames
                 THEN Delegate("openai.handleCall", name, a, OpenAIOptions(name, a),
                               made.client, c)
                 ELSE Answer("openai.handleCall", a, c,
                             JsonParse(JsonStringify(Failure("Unknown tool: " \o name))),
                             "unknown")
    /\ UNCHANGED <<ctor, files, written, saved, tasks, buffer>>

\* the client operation has settled: handleOpenAIToolCall stringifies its result
\* and handleCall parses it
HandleCallReturn ==
    /\ pc = "adapter"
    /\ entry = "openai.handleCall"
    /\ result' = JsonParse(JsonStringify(ToolCallResult(call.tool, outcome)))
    /\ pc' = "done"
    /\ UNCHANGED <<ctor, entry, op, args, call, timer, requests, wire, resp, cause, raised,
                   outcome, files, written, saved, tasks, buffer>>

-----------------------------------------------------------------------------
(* tools/langchain-tools.ts: the four tools *)

\* call() that takes every input for an object: a raw string has no text property
LangChainOptions_StringIsObject(tool, input, a) ==
    LET params == IF input = "string" THEN NoArgs ELSE a
    IN  IF tool = TOOL_NAMES.TTS
        THEN [text |-> params.text,
              voice |-> StrOr(params.voice, "heart"),
              language |-> StrOr(params.language, "american_english"),
              speed |-> NumOr(params.speed, Num(DefaultSpeed))]
        ELSE IF tool = TOOL_NAMES.MULTI_VOICE
        THEN [text |-> params.text,
              voice |-> Undef,
              language |-> StrOr(params.language, "american_english"),
              speed |-> NumOr(params.speed, Num(DefaultSpeed))]
        ELSE NoArgs

\* the options LangVoiceTTSTool.call and LangVoiceMultiVoiceTool.call pass to
\* the client; a raw string input is the text
LangChainOptions(tool, input, a) ==
    LET params == IF input = "string" THEN [NoArgs EXCEPT !.text = a.text] ELSE a
    IN  IF tool = TOOL_NAMES.TTS
        THEN [text |-> params.text,
              voice |-> StrOr(params.voice, "heart"),
              language |-> StrOr(params.language, "american_english"),
              speed |-> NumOr(params.speed, Num(DefaultSpeed))]
        ELSE IF tool = TOOL_NAMES.MULTI_VOICE
        THEN [text |-> params.text,
              voice |-> Undef,
              language |-> StrOr(params.language, "american_english"),
              speed |-> NumOr(params.speed, Num(DefaultSpeed))]
        ELSE NoArgs

\* this.outputFile: the text-to-speech tool defaults it, the others do not
LangChainOutputFile(tool, option) ==
    IF tool = TOOL_NAMES.TTS THEN StrOr(option, "output.mp3") ELSE option

\* the string call() returns; wrote tells whether writeFileSync succeeded
LangChainResult(tool, out, outputFile, wrote) ==
    LET str == [NoResult EXCEPT !.shape = "string"]
        good == [str EXCEPT !.success = TRUE, !.marker = "check",
                            !.duration = out.value.duration]
        bad(prefix) == [str EXCEPT !.marker = IF tool \in SpeechTools THEN "cross" ELSE "",
                                   !.keys = {"error"},
                                   !.message = prefix,
                                   !.error = out.err.message]
        stored == StrOr(outputFile, "") # "" /\ wrote
    IN  CASE tool = TOOL_NAMES.TTS ->
                IF out.kind = "threw" THEN bad("Error generating speech: ")
                ELSE IF stored
                THEN [good EXCEPT !.keys = {"outputFile", "duration", "charactersProcessed"},
                                  !.message = "Speech generated and saved to "
                                                \o outputFile \o "!",
                                  !.outputFile = outputFile,
                                  !.charactersProcessed = out.value.charactersProcessed]
                ELSE [good EXCEPT !.keys = {"duration", "preview"},
                                  !.message = "Speech generated!",
                                  !.preview = Preview(out.value.audioData)]
          [] tool = TOOL_NAMES.MULTI_VOICE ->
                IF out.kind = "threw" THEN bad("Error generating multi-voice speech: ")
                ELSE IF stored
                THEN [good EXCEPT !.keys = {"outputFile", "duration"},
                                  !.message = "Multi-voice speech generated and saved to "
                                                \o outputFile \o "!",
                                  !.outputFile = outputFile]
                ELSE [good EXCEPT !.keys = {"duration"},
                                  !.message = "Multi-voice speech generated! Audio available in base64 format."]
          [] tool = TOOL_NAMES.LIST_VOICES ->
                IF out.kind = "threw" THEN bad("Error listing voices: ")
                ELSE [str EXCEPT !.success = TRUE, !.keys = {"list"},
                                 !.message = "Available voices: ",
                                 !.list = Entries(out.value.list)]
          [] tool = TOOL_NAMES.LIST_LANGUAGES ->
                IF out.kind = "threw" THEN bad("Error listing languages: ")
                ELSE [str EXCEPT !.success = TRUE, !.keys = {"list"},
                                 !.message = "Supported languages: ",
                                 !.list = Entries(out.value.list)]

\* tool.call(input), or tool.invoke(input) which returns this.call(input), of a
\* tool constructed with {apiKey, outputFile}: up to the call of the client
LangChainCall ==
    /\ Ready
    /\ \E tool \in ToolNames, input \in {"object", "string"}, f \in OutputFileOptions,
          via \in {"call", "invoke"} :
       \E a \in ToolArgs(tool) :
          /\ (input = "string") =>
                (tool \in SpeechTools /\ a = [NoArgs EXCEPT !.text = a.text])
          /\ (tool \notin SpeechTools) => f = Undef
          /\ Delegate("langchain.call", tool, a, LangChainOptions(tool, input, a),
                      ctor.client,
                      [NoCall EXCEPT !.tool = tool, !.input = input, !.outputFile = f,
                                     !.via = via])
    /\ UNCHANGED <<ctor, files, written, saved, tasks, buffer>>

\* the client operation has settled: the audio is written to this.outputFile
\* when there is one, and the status string is returned
LangChainReturn ==
    /\ pc = "adapter"
    /\ entry = "langchain.call"
    /\ LET outputFile == LangChainOutputFile(call.tool, call.outputFile)
           writes == /\ call.tool \in SpeechTools
                     /\ outcome.kind = "returned"
                     /\ StrOr(outputFile, "") # ""
       IN  \E wrote \in (IF writes THEN BOOLEAN ELSE {FALSE}) :
              /\ files' = IF wrote
                          THEN WriteFile(files, outputFile, outcome.value.audioData)
                          ELSE files
              /\ written' = IF ~writes THEN "none" ELSE IF wrote THEN "ok" ELSE "failed"
              /\ result' = LangChainResult(call.tool, outcome, outputFile, wrote)
    /\ pc' = "done"
    /\ UNCHANGED <<ctor, entry, op, args, call, timer, requests, wire, resp, cause, raised,
                   outcome, saved, tasks, buffer>>

-----------------------------------------------------------------------------
(* tools/autogen-tools.ts: LangVoiceAutoGenTools *)

\* the options textToSpeechHandler and multiVoiceHandler pass to the client
AutoGenOptions(tool, a) ==
    IF tool = TOOL_NAMES.TTS
    THEN [text |-> a.text,
          voice |-> StrOr(a.voice, "heart"),
          language |-> StrOr(a.language, "american_english"),
          speed |-> NumOr(a.speed, Num(DefaultSpeed))]
    ELSE IF tool = TOOL_NAMES.MULTI_VOICE
    THEN [text |-> a.text,
          voice |-> Undef,
          language |-> StrOr(a.language, "american_english"),
          speed |-> NumOr(a.speed, Num(DefaultSpeed))]
    ELSE NoArgs

\* the options generateSpeech and generateMultiVoice pass to the client
AutoGenDirectOptions(tool, input) ==
    IF tool = TOOL_NAMES.TTS
    THEN [text |-> input.text,
          voice |-> StrOr(input.voice, "heart"),
          language |-> StrOr(input.language, "american_english"),
          speed |-> NumOr(input.speed, Num(DefaultSpeed))]
    ELSE [text |-> input.text,
          voice |-> Undef,
          language |-> StrOr(input.language, "american_english"),
          speed |-> NumOr(input.speed, Num(DefaultSpeed))]

\* this.autoSave = options.autoSave || true: false is falsy, so always true
AutoSave_OrTrue(option) == option = "false" \/ option # "false"

\* this.autoSave = options.autoSave ?? true
AutoSave(option) == option # "false"

\* a handler that lets the configured outputFile win over the output_file argument
OutputPath_OptionFirst(output_file, option) ==
    StrOr(option, StrOr(output_file, "output.mp3"))

\* (args.output_file as string) || this.outputFile, with
\* this.outputFile = options.outputFile || 'output.mp3'
OutputPath(output_file, option) == StrOr(output_file, StrOr(option, "output.mp3"))

\* handlers that let the error of a failed writeFileSync reach the outer catch
AutoGenHandlerResult_WriteFailureFails(tool, out, outputPath, autoSave, wrote) ==
    IF out.kind = "threw" THEN Failure(out.err.message)
    ELSE LET ok == [NoResult EXCEPT !.shape = "object", !.success = TRUE]
             sp == [ok EXCEPT !.duration = out.value.duration]
         IN  CASE tool = TOOL_NAMES.TTS ->
                    LET tts == [sp EXCEPT !.charactersProcessed = out.value.charactersProcessed]
                    IN  IF autoSave /\ wrote
                        THEN [tts EXCEPT !.keys = {"success", "message", "duration",
                                                   "charactersProcessed", "outputFile"},
                                         !.message = "Speech generated and saved to "
                                                        \o outputPath,
                                         !.outputFile = outputPath]
                        ELSE IF autoSave
                        THEN Failure("EACCES: permission denied")
                        ELSE [tts EXCEPT !.keys = {"success", "duration",
                                                   "charactersProcessed", "audioBase64"},
                                         !.audioBase64 = toBase64(out.value.audioData)]
               [] tool = TOOL_NAMES.MULTI_VOICE ->
                    IF autoSave /\ wrote
                    THEN [sp EXCEPT !.keys = {"success", "message", "duration", "outputFile"},
                                    !.message = "Multi-voice speech generated and saved to "
                                                   \o outputPath,
                                    !.outputFile = outputPath]
                    ELSE IF autoSave
                    THEN Failure("EACCES: permission denied")
                    ELSE [sp EXCEPT !.keys = {"success", "duration", "audioBase64"},
                                    !.audioBase64 = toBase64(out.value.audioData)]
               [] tool = TOOL_NAMES.LIST_VOICES ->
                    [ok EXCEPT !.keys = {"success", "voices", "count"},
                               !.list = Entries(out.value.list),
                               !.count = Len(out.value.list)]
               [] tool = TOOL_NAMES.LIST_LANGUAGES ->
                    [ok EXCEPT !.keys = {"success", "languages", "count"},
                               !.list = Entries(out.value.list),
                               !.count = Len(out.value.list)]

\* the object the handlers stringify; wrote tells whether writeFileSync succeeded
AutoGenHandlerResult(tool, out, outputPath, autoSave, wrote) ==
    IF out.kind = "threw" THEN Failure(out.err.message)
    ELSE LET ok == [NoResult EXCEPT !.shape = "object", !.success = TRUE]
             sp == [ok EXCEPT !.duration = out.value.duration]
         IN  CASE tool = TOOL_NAMES.TTS ->
                    LET tts == [sp EXCEPT !.charactersProcessed = out.value.charactersProcessed]
                    IN  IF autoSave /\ wrote
                        THEN [tts EXCEPT !.keys = {"success", "message", "duration",
                                                   "charactersProcessed", "outputFile"},
                                         !.message = "Speech generated and saved to "
                                                        \o outputPath,
                                         !.outputFile = outputPath]
                        ELSE IF autoSave
                        THEN [tts EXCEPT !.keys = {"success", "message", "duration",
                                                   "charactersProcessed",
                                                   "audioBase64Preview"},
                                         !.message = "Speech generated (file save not available in this environment)",
                                         !.preview = Preview(out.value.audioData)]
                        ELSE [tts EXCEPT !.keys = {"success", "duration",
                                                   "charactersProcessed", "audioBase64"},
                                         !.audioBase64 = toBase64(out.value.audioData)]
               [] tool = TOOL_NAMES.MULTI_VOICE ->
                    IF autoSave /\ wrote
                    THEN [sp EXCEPT !.keys = {"success", "message", "duration", "outputFile"},
                                    !.message = "Multi-voice speech generated and saved to "
                                                   \o outputPath,
                                    !.outputFile = outputPath]
                    ELSE IF autoSave
                    THEN [sp EXCEPT !.keys = {"success", "message", "duration"},
                                    !.message = "Multi-voice speech generated"]
                    ELSE [sp EXCEPT !.keys = {"success", "duration", "audioBase64"},
                                    !.audioBase64 = toBase64(out.value.audioData)]
               [] tool = TOOL_NAMES.LIST_VOICES ->
                    [ok EXCEPT !.keys = {"success", "voices", "count"},
                               !.list = Entries(out.value.list),
                               !.count = Len(out.value.list)]
               [] tool = TOOL_NAMES.LIST_LANGUAGES ->
                    [ok EXCEPT !.keys = {"success", "languages", "count"},
                               !.list = Entries(out.value.list),
                               !.count = Len(out.value.list)]

\* what generateSpeech and generateMultiVoice return
AutoGenDirectResult(tool, out) ==
    IF out.kind = "threw" THEN Failure(out.err.message)
    ELSE LET ok == [NoResult EXCEPT !.shape = "object", !.success = TRUE,
                                    !.audioBase64 = toBase64(out.value.audioData),
                                    !.audioBuffer = out.value.audioData,
                                    !.duration = out.value.duration]
         IN  IF tool = TOOL_NAMES.TTS
             THEN [ok EXCEPT !.keys = {"success", "audioBase64", "audioBuffer", "duration",
                                       "charactersProcessed"},
                             !.charactersProcessed = out.value.charactersProcessed]
             ELSE [ok EXCEPT !.keys = {"success", "audioBase64", "audioBuffer", "duration"}]

\* the adapter's options and the output_file argument a call can come with
AutoGenCalls(tool) ==
    IF tool \in SpeechTools
    THEN {[NoCall EXCEPT !.tool = tool, !.outputFile = f, !.autoSave = s, !.output_file = o] :
            f \in OutputFileOptions, s \in AutoSaveOptions, o \in OutputFileArgs}
    ELSE {[NoCall EXCEPT !.tool = tool]}

\* a handler of getFunctionMap() called with args: up to the call of the client
AutoGenHandler ==
    /\ Ready
    /\ \E tool \in ToolNames : \E a \in ToolArgs(tool), c \in AutoGenCalls(tool) :
          Delegate("autogen.handler", tool, a, AutoGenOptions(tool, a), ctor.client, c)
    /\ UNCHANGED <<ctor, files, written, saved, tasks, buffer>>

\* tools.handleFunctionCall({name, arguments}): JSON.parse of a string of
\* arguments, the lookup of the name in the function map, the handler.  The map is
\* an object literal, so "toString" finds Object.prototype.toString, which
\* answers "[object Undefined]"
HandleFunctionCall ==
    /\ Ready
    /\ \E name \in ToolNames \cup UnknownNames, input \in {"object", "json", "badjson"} :
       \E a \in ToolArgs(name) :
          LET known == name \in ToolNames
              cs == IF known /\ input # "badjson" THEN AutoGenCalls(name)
                    ELSE {[NoCall EXCEPT !.tool = name]}
          IN  \E c0 \in cs :
                 LET c == [c0 EXCEPT !.input = input]
                 IN  /\ (input = "json") => a.speed.t # "nan"
                     /\ (input = "badjson") => a = NoArgs
                     /\ IF input = "badjson"
                        THEN Answer("autogen.handleFunctionCall", a, c,
                                    [NoResult EXCEPT !.shape = "threw",
                                        !.thrown = PlainError("SyntaxError",
                                                              "Unexpected token in JSON")],
                                    "arguments")
                        ELSE IF known
                        THEN Delegate("autogen.handleFunctionCall", name, a,
                                      AutoGenOptions(name, a), ctor.client, c)
                        ELSE IF name = "toString"
                        THEN Answer("autogen.handleFunctionCall", a, c,
                                    [NoResult EXCEPT !.shape = "string",
                                                     !.message = "[object Undefined]"],
                                    "unknown")
                        ELSE Answer("autogen.handleFunctionCall", a, c,
                                    JsonStringify(Failure("Unknown function: " \o name)),
                                    "unknown")
    /\ UNCHANGED <<ctor, files, written, saved, tasks, buffer>>

\* the client operation has settled: with autoSave the audio is written to the
\* output path, and the result is stringified
AutoGenHandlerReturn ==
    /\ pc = "adapter"
    /\ entry \in {"autogen.handler", "autogen.handleFunctionCall"}
    /\ LET outputPath == OutputPath(call.output_file, call.outputFile)
           autoSave == AutoSave(call.autoSave)
           writes == call.tool \in SpeechTools /\ outcome.kind = "returned" /\ autoSave
       IN  \E wrote \in (IF writes THEN BOOLEAN ELSE {FALSE}) :
              /\ files' = IF wrote
                          THEN WriteFile(files, outputPath, outcome.value.audioData)
                          ELSE files
              /\ written' = IF ~writes THEN "none" ELSE IF wrote THEN "ok" ELSE "failed"
              /\ result' = JsonStringify(AutoGenHandlerResult(call.tool, outcome,
                                                              outputPath, autoSave, wrote))
    /\ pc' = "done"
    /\ UNCHANGED <<ctor, entry, op, args, call, timer, requests, wire, resp, cause, raised,
                   outcome, saved, tasks, buffer>>

\* tools.generateSpeech(input) and tools.generateMultiVoice(input): up to the
\* call of the client
AutoGenDirect ==
    /\ Ready
    /\ \E tool \in SpeechTools : \E a \in ToolArgs(tool) :
          Delegate("autogen.direct", tool, a, AutoGenDirectOptions(tool, a), ctor.client,
                   [NoCall EXCEPT !.tool = tool])
    /\ UNCHANGED <<ctor, files, written, saved, tasks, buffer>>

\* the client operation has settled: the direct method builds its result
AutoGenDirectReturn ==
    /\ pc = "adapter"
    /\ entry = "autogen.direct"
    /\ result' = AutoGenDirectResult(call.tool, outcome)
    /\ pc' = "done"
    /\ UNCHANGED <<ctor, entry, op, args, call, timer, requests, wire, resp, cause, raised,
                   outcome, files, written, saved, tasks, buffer>>

-----------------------------------------------------------------------------
(* saveAudio of LangVoiceToolkit and LangVoiceAutoGenTools, saveAudioFromResult
   of LangVoiceOpenAITools *)

\* the value of a character of the base64 alphabet
B64Index(c) == (CHOOSE i \in 1..Len(B64Alphabet) : B64Alphabet[i] = c) - 1

\* the 6-bit values of the characters before the padding
RECURSIVE B64Sextets(_)
B64Sextets(s) ==
    IF Len(s) = 0 \/ Head(s) = "=" THEN <<>>
    ELSE <<B64Index(Head(s))>> \o B64Sextets(Tail(s))

\* four 6-bit values give three bytes, three give two, two give one
RECURSIVE B64Bytes(_)
B64Bytes(q) ==
    IF Len(q) < 2 THEN <<>>
    ELSE LET b1 == q[1] * 4 + (q[2] \div 16)
             b2 == (q[2] % 16) * 16 + (q[3] \div 4)
             b3 == (q[3] % 4) * 64 + q[4]
         IN  IF Len(q) = 2 THEN <<b1>>
             ELSE IF Len(q) = 3 THEN <<b1, b2>>
             ELSE <<b1, b2, b3>> \o B64Bytes(SubSeq(q, 5, Len(q)))

\* Buffer.from(audioBase64, 'base64')
BufferFromBase64(s) == B64Bytes(B64Sextets(s))

\* !result.audioBase64: the key is missing, or the string is empty
NoAudioBase64(r) == "audioBase64" \notin r.keys \/ r.audioBase64 = <<>>

\* saveAudio that does not look at result.success
saveAudio_IgnoresSuccess(r, outputPath, fs, wrote) ==
    IF NoAudioBase64(r)
    THEN [returned |-> FALSE, files |-> fs, written |-> "none"]
    ELSE IF wrote
    THEN [returned |-> TRUE,
          files |-> WriteFile(fs, outputPath, BufferFromBase64(r.audioBase64)),
          written |-> "ok"]
    ELSE [returned |-> FALSE, files |-> fs, written |-> "failed"]

\* the body the three helpers share: the guard, the decoding and the write inside
\* try, false from the catch; wrote tells whether writeFileSync succeeded
saveAudio(r, outputPath, fs, wrote) ==
    IF ~r.success \/ NoAudioBase64(r)
    THEN [returned |-> FALSE, files |-> fs, written |-> "none"]
    ELSE IF wrote
    THEN [returned |-> TRUE,
          files |-> WriteFile(fs, outputPath, BufferFromBase64(r.audioBase64)),
          written |-> "ok"]
    ELSE [returned |-> FALSE, files |-> fs, written |-> "failed"]

\* the audio of the results handed to the helpers: every length modulo three
SaveAudioSamples == {<<>>, <<255>>, <<77, 80>>, <<255, 0, 16>>, <<73, 68, 51, 4>>}

SaveOutcomes ==
    {Returned(GenerateResponse(d, NoHeaders)) : d \in SaveAudioSamples}
        \cup {Threw(ValidationError("Text cannot be empty"))}

\* a result some caller built: the audio of r with success false, and audio
\* encoded without padding
Unsuccessful(r) == [r EXCEPT !.success = FALSE]
Unpadded == <<"/", "w">>

\* the results of the adapter's own operations, and results a caller built
ToolkitSaveResults ==
    LET made == {ToolkitResult(t, o) : t \in ToolNames, o \in SaveOutcomes}
    IN  made \cup {Unsuccessful(r) : r \in made}
             \cup {[r EXCEPT !.audioBase64 = Unpadded] : r \in {x \in made : ~NoAudioBase64(x)}}

OpenAISaveResults ==
    LET made == {JsonParse(JsonStringify(ToolCallResult(t, o))) :
                    t \in ToolNames, o \in SaveOutcomes}
    IN  made \cup {Unsuccessful(r) : r \in made}

AutoGenSaveResults ==
    LET made == {AutoGenDirectResult(t, o) : t \in SpeechTools, o \in SaveOutcomes}
    IN  made \cup {Unsuccessful(r) : r \in made}

\* the paths a caller passes: a file, or the empty path no file can have
SavePaths == Paths \cup {""}

\* the step the three helpers share: result and outputPath are recorded as the
\* call's input, the file system, the write and the returned boolean as its effect
Save(e, r, given, outputPath, c) ==
    /\ pc = "idle"
    /\ \E wrote \in (IF outputPath = "" THEN {FALSE} ELSE BOOLEAN) :
          LET eff == saveAudio(r, outputPath, files, wrote)
          IN  /\ files' = eff.files
              /\ written' = eff.written
              /\ saved' = IF eff.returned THEN "true" ELSE "false"
    /\ entry' = e
    /\ result' = r
    /\ call' = [c EXCEPT !.output_file = given]
    /\ pc' = "done"
    /\ UNCHANGED <<ctor, op, args, timer, requests, wire, resp, cause, raised, outcome,
                   tasks, buffer>>

\* toolkit.saveAudio(result, outputPath)
ToolkitSaveAudio ==
    \E r \in ToolkitSaveResults, p \in SavePaths :
       Save("generic.saveAudio", r, p, p, NoCall)

\* tools.saveAudioFromResult(result, outputPath)
SaveAudioFromResult ==
    \E r \in OpenAISaveResults, p \in SavePaths :
       Save("openai.saveAudioFromResult", r, p, p, NoCall)

\* tools.saveAudio(result, outputPath?) of an adapter constructed with
\* {outputFile}: outputPath || this.outputFile
AutoGenSaveAudio ==
    \E r \in AutoGenSaveResults, f \in OutputFileOptions, p \in OutputFileArgs :
       Save("autogen.saveAudio", r, p, OutputPath(p, f), [NoCall EXCEPT !.outputFile = f])

-----------------------------------------------------------------------------
(* getAudioBuffer of LangVoiceToolkit and LangVoiceOpenAITools *)

\* getAudioBuffer(result): null when !result.success || !result.audioBase64
getAudioBuffer(r) ==
    IF ~r.success \/ NoAudioBase64(r) THEN NullBuffer
    ELSE BufferFromBase64(r.audioBase64)

\* toolkit.getAudioBuffer(result) / tools.getAudioBuffer(result) on the result
\* the adapter has just returned
GetAudioBuffer ==
    /\ pc = "done"
    /\ entry \in {"generic", "generic.handleToolCall", "openai.handleCall"}
    /\ buffer = NotCalled
    /\ buffer' = getAudioBuffer(result)
    /\ UNCHANGED <<ctor, entry, op, args, call, pc, timer, requests, wire, resp, cause,
                   raised, outcome, result, files, written, saved, tasks>>

-----------------------------------------------------------------------------
(* the tools each adapter advertises: the names, in the order of the arrays *)

\* LangVoiceToolkit.getFunctionSchemas()
getFunctionSchemas ==
    <<TOOL_NAMES.TTS, TOOL_NAMES.MULTI_VOICE, TOOL_NAMES.LIST_VOICES,
      TOOL_NAMES.LIST_LANGUAGES>>

\* LangVoiceToolkit.getOpenAITools(): getFunctionSchemas().map(...)
ToolkitGetOpenAITools == [i \in 1..Len(getFunctionSchemas) |-> getFunctionSchemas[i]]

\* a list of tool definitions without the languages tool
getOpenAITools_WithoutLanguages ==
    <<TOOL_NAMES.TTS, TOOL_NAMES.MULTI_VOICE, TOOL_NAMES.LIST_VOICES>>

\* getOpenAITools() of openai-tools.ts, which LangVoiceOpenAITools.getTools() returns
getOpenAITools ==
    <<TOOL_NAMES.TTS, TOOL_NAMES.MULTI_VOICE, TOOL_NAMES.LIST_VOICES,
      TOOL_NAMES.LIST_LANGUAGES>>

\* LangVoiceAutoGenTools.getFunctionDefinitions()
getFunctionDefinitions ==
    <<TOOL_NAMES.TTS, TOOL_NAMES.MULTI_VOICE, TOOL_NAMES.LIST_VOICES,
      TOOL_NAMES.LIST_LANGUAGES>>

\* the own keys of LangVoiceAutoGenTools.getFunctionMap(), in insertion order
getFunctionMap ==
    <<TOOL_NAMES.TTS, TOOL_NAMES.MULTI_VOICE, TOOL_NAMES.LIST_VOICES,
      TOOL_NAMES.LIST_LANGUAGES>>

\* the names of the tools LangVoiceLangChainToolkit.getTools() constructs
getTools ==
    <<TOOL_NAMES.TTS, TOOL_NAMES.MULTI_VOICE, TOOL_NAMES.LIST_VOICES,
      TOOL_NAMES.LIST_LANGUAGES>>

\* what the adapter of a dispatch-by-name entry point advertises
Advertised(e) ==
    CASE e = "generic.handleToolCall" -> getFunctionSchemas
      [] e \in {"openai.handleOpenAIToolCall", "openai.handleCall"} -> getOpenAITools
      [] e = "autogen.handleFunctionCall" -> getFunctionDefinitions

-----------------------------------------------------------------------------
(* several calls in progress at once on one client *)

MaxTasks == 2

\* the variables of the single invocation, which concurrent calls leave alone
single == <<entry, op, args, call, pc, timer, requests, wire, resp, cause, raised,
            outcome, result, written, saved>>

\* the calls made at once: operations of the client itself, and speech tools of
\* the LangChain and AutoGen adapters that hold the client
ConcurrentCalls ==
    {[NoCall EXCEPT !.tool = t, !.input = "client"] :
        t \in {TOOL_NAMES.TTS, TOOL_NAMES.LIST_VOICES}}
      \cup {[NoCall EXCEPT !.tool = TOOL_NAMES.TTS, !.input = "langchain.call",
                           !.outputFile = f] : f \in OutputFileOptions}
      \cup {[NoCall EXCEPT !.tool = TOOL_NAMES.MULTI_VOICE, !.input = "langchain.call",
                           !.outputFile = "speech.mp3"],
            [NoCall EXCEPT !.tool = TOOL_NAMES.TTS, !.input = "autogen.handler"],
            [NoCall EXCEPT !.tool = TOOL_NAMES.MULTI_VOICE, !.input = "autogen.handler",
                           !.output_file = "speech.mp3"]}

ConcurrentArgs == [NoArgs EXCEPT !.text = Str(1)]
ConcurrentStatuses == {200, 500}
ConcurrentAudio == {<<255, 0, 16>>, <<73, 68, 51>>}

\* one AbortController for all requests: the one the first request made
NewController_Shared(ts) == IF Len(ts) = 0 THEN Len(ts) + 1 ELSE ts[1].controller

\* new AbortController(): an object no other request has
NewController(ts) == Len(ts) + 1

\* request / requestBinary up to the call of fetch: the controller, the timer,
\* the request on the wire
NewTask(c, client, ts) ==
    LET o == ToolOp(c.tool)
        a == IF c.tool \in SpeechTools
             THEN (IF c.input = "langchain.call"
                   THEN LangChainOptions(c.tool, "object", ConcurrentArgs)
                   ELSE AutoGenOptions(c.tool, ConcurrentArgs))
             ELSE NoArgs
    IN  [entry |-> c.input, call |-> c, op |-> o, pc |-> "fetch",
         controller |-> NewController(ts), timer |-> "armed",
         wire |-> [method |-> Method(o), url |-> client.baseUrl \o Endpoint(o),
                   apiKey |-> client.apiKey, hasBody |-> o \in BinaryOps,
                   body |-> BuildRequest(o, a).req],
         resp |-> NoResp, outcome |-> Pending, result |-> NoResult,
         written |-> "none", order |-> 0]

\* the operation is over: back to the caller, or to the adapter that awaits it
TaskSettle(t, out) ==
    [t EXCEPT !.outcome = out, !.pc = IF t.entry = "client" THEN "done" ELSE "adapter"]

\* the catch block: clearTimeout(timeoutId) of this request, then rethrow
TaskFail(t, error, timerNow) ==
    TaskSettle([t EXCEPT !.timer = IF timerNow = "armed" THEN "cleared" ELSE timerNow],
               Threw(CatchClause(error)))

\* controller.abort() called by the timer of request i: every fetch whose signal
\* belongs to controller c rejects with AbortError
Abort(ts, c, i) ==
    [j \in DOMAIN ts |->
        IF ts[j].pc = "fetch" /\ ts[j].controller = c
        THEN TaskFail(ts[j], AbortError, IF j = i THEN "fired" ELSE ts[j].timer)
        ELSE IF j = i THEN [ts[j] EXCEPT !.timer = "fired"]
        ELSE ts[j]]

\* a caller makes one more call while the others are in progress
StartTask ==
    /\ ctor.state = "ok"
    /\ Len(tasks) < MaxTasks
    /\ \E c \in ConcurrentCalls : tasks' = Append(tasks, NewTask(c, ctor.client, tasks))
    /\ UNCHANGED <<ctor, files, single, buffer>>

\* the timer of a request fires
TaskTimeout ==
    /\ \E i \in DOMAIN tasks :
          /\ tasks[i].timer = "armed"
          /\ tasks' = Abort(tasks, tasks[i].controller, i)
    /\ UNCHANGED <<ctor, files, single, buffer>>

\* the fetch of a request rejects
TaskFetchRejects ==
    /\ \E i \in DOMAIN tasks, e \in NetworkErrors :
          /\ tasks[i].pc = "fetch"
          /\ tasks' = [tasks EXCEPT ![i] = TaskFail(@, e, @.timer)]
    /\ UNCHANGED <<ctor, files, single, buffer>>

\* the fetch of a request resolves: clearTimeout(timeoutId)
TaskFetchResolves ==
    /\ \E i \in DOMAIN tasks, st \in ConcurrentStatuses :
          /\ tasks[i].pc = "fetch"
          /\ tasks' = [tasks EXCEPT ![i] =
                          [@ EXCEPT !.resp = [NoResp EXCEPT !.status = st],
                                    !.timer = "cleared",
                                    !.pc = IF Ok(st) THEN "body" ELSE "errorBody"]]
    /\ UNCHANGED <<ctor, files, single, buffer>>

\* handleResponseErrors throws for a request
TaskErrorBody ==
    /\ \E i \in DOMAIN tasks :
          /\ tasks[i].pc = "errorBody"
          /\ tasks' = [tasks EXCEPT ![i] =
                          TaskFail(@, handleResponseErrors(@.resp.status, "", "json-error"),
                                   @.timer)]
    /\ UNCHANGED <<ctor, files, single, buffer>>

\* the body of a request has been read
TaskBody ==
    /\ \E i \in DOMAIN tasks :
          /\ tasks[i].pc = "body"
          /\ IF tasks[i].op \in BinaryOps
             THEN \E data \in ConcurrentAudio :
                     tasks' = [tasks EXCEPT ![i] =
                                  TaskSettle([@ EXCEPT !.resp.body = data],
                                             Returned(GenerateResponse(data, NoHeaders)))]
             ELSE \E l \in ListSamples :
                     tasks' = [tasks EXCEPT ![i] = TaskSettle(@, Returned(ListResponse(l)))]
    /\ UNCHANGED <<ctor, files, single, buffer>>

\* the adapter of a call goes on after the client operation has settled: the
\* audio is written with writeFileSync, the result is built
TaskReturn ==
    /\ \E i \in DOMAIN tasks :
          LET t == tasks[i]
              outputPath == IF t.entry = "langchain.call"
                            THEN LangChainOutputFile(t.call.tool, t.call.outputFile)
                            ELSE OutputPath(t.call.output_file, t.call.outputFile)
              autoSave == AutoSave(t.call.autoSave)
              writes == /\ t.outcome.kind = "returned"
                        /\ IF t.entry = "langchain.call" THEN StrOr(outputPath, "") # ""
                           ELSE autoSave
              before == Cardinality({j \in DOMAIN tasks : tasks[j].written = "ok"})
          IN  /\ t.pc = "adapter"
              /\ \E wrote \in (IF writes THEN BOOLEAN ELSE {FALSE}) :
                    /\ files' = IF wrote
                                THEN WriteFile(files, outputPath, t.outcome.value.audioData)
                                ELSE files
                    /\ tasks' = [tasks EXCEPT ![i] =
                          [@ EXCEPT !.pc = "done",
                                    !.written = IF ~writes THEN "none"
                                                ELSE IF wrote THEN "ok" ELSE "failed",
                                    !.order = IF wrote THEN before + 1 ELSE 0,
                                    !.result =
                                        IF t.entry = "langchain.call"
                                        THEN LangChainResult(t.call.tool, t.outcome,
                                                             outputPath, wrote)
                                        ELSE JsonStringify(AutoGenHandlerResult(
                                                 t.call.tool, t.outcome, outputPath,
                                                 autoSave, wrote))]]
    /\ UNCHANGED <<ctor, single, buffer>>

-----------------------------------------------------------------------------
(* the specifications *)

Next ==
    \/ Generate
    \/ GenerateMultiVoice
    \/ GenerateCloned
    \/ List
    \/ ToolkitCall
    \/ HandleToolCall
    \/ HandleOpenAIToolCall
    \/ HandleCall
    \/ LangChainCall
    \/ AutoGenHandler
    \/ HandleFunctionCall
    \/ AutoGenDirect
    \/ Timeout
    \/ FetchRejects
    \/ FetchResolves
    \/ ErrorBody
    \/ BinaryBody
    \/ JsonBody
    \/ BodyFails
    \/ ToolkitReturn
    \/ OpenAIReturn
    \/ HandleCallReturn
    \/ LangChainReturn
    \/ AutoGenHandlerReturn
    \/ AutoGenDirectReturn

Spec == Init /\ [][Next]_vars

\* no client yet: the constructor is tried with every options.apiKey in every
\* environment, and the client it makes lists the voices and the languages
InitCtor ==
    /\ ctor = [state |-> "none", options |-> NoOptions, env |-> Undef,
               err |-> NoError, client |-> NoClient]
    /\ entry = "none"
    /\ op = "none"
    /\ args = NoArgs
    /\ call = NoCall
    /\ pc = "idle"
    /\ timer = "none"
    /\ requests = 0
    /\ wire = NoWire
    /\ resp = NoResp
    /\ cause = "none"
    /\ raised = NoError
    /\ outcome = Pending
    /\ result = NoResult
    /\ files = [p \in Paths |-> Absent]
    /\ written = "none"
    /\ saved = "none"
    /\ tasks = NoTasks
    /\ buffer = NotCalled

NextCtor ==
    \/ Construct
    \/ List
    \/ Timeout
    \/ FetchRejects
    \/ FetchResolves
    \/ ErrorBody
    \/ JsonBody
    \/ BodyFails

SpecCtor == InitCtor /\ [][NextCtor]_vars

\* generate / generateMultiVoice with the body of a 200 response about to arrive,
\* one metadata header ranging over HeaderValues
InitHeaders ==
    /\ ctor = [state |-> "ok", options |-> [NoOptions EXCEPT !.apiKey = "option-key"],
               env |-> Undef, err |-> NoError,
               client |-> Constructor([NoOptions EXCEPT !.apiKey = "option-key"], Undef).client]
    /\ entry = "client"
    /\ op \in BinaryOps
    /\ args = [NoArgs EXCEPT !.text = Str(1)]
    /\ call = NoCall
    /\ pc = "body"
    /\ timer = "cleared"
    /\ requests = 1
    /\ wire = [method |-> Method(op), url |-> ctor.client.baseUrl \o Endpoint(op),
               apiKey |-> ctor.client.apiKey, hasBody |-> TRUE,
               body |-> BuildRequest(op, args).req]
    /\ \E h \in HeaderValues :
          resp \in {[NoResp EXCEPT !.status = 200, !.headers = hs] :
                      hs \in {[duration |-> h, generationTime |-> NullHeader,
                                characters |-> ExampleCharacters],
                               [duration |-> ExampleDuration, generationTime |-> h,
                                characters |-> NullHeader],
                               [duration |-> ExampleDuration, generationTime |-> NullHeader,
                                characters |-> h]}}
    /\ cause = "none"
    /\ raised = NoError
    /\ outcome = Pending
    /\ result = NoResult
    /\ files = [p \in Paths |-> Absent]
    /\ written = "none"
    /\ saved = "none"
    /\ tasks = NoTasks
    /\ buffer = NotCalled

NextHeaders == BinaryBody

SpecHeaders == InitHeaders /\ [][NextHeaders]_vars

\* the timer fires when its delay has passed and nobody cleared it, and an
\* adapter goes on once the client operation it awaits has settled; the steps of
\* the remote side (FetchResolves, FetchRejects, the body actions) are not fair
FairSpec ==
    /\ Spec
    /\ WF_vars(Timeout)
    /\ WF_vars(ToolkitReturn)
    /\ WF_vars(OpenAIReturn)
    /\ WF_vars(HandleCallReturn)
    /\ WF_vars(LangChainReturn)
    /\ WF_vars(AutoGenHandlerReturn)
    /\ WF_vars(AutoGenDirectReturn)

\* the file system a helper can find: nothing there, or an older recording at
\* one of the paths
SaveFiles ==
    {[p \in Paths |-> Absent]}
        \cup {[p \in Paths |-> IF p = q THEN <<1, 2>> ELSE Absent] : q \in Paths}

\* a constructed adapter, and a file system, before one of the save helpers is called
InitSave ==
    /\ ctor = [state |-> "ok", options |-> [NoOptions EXCEPT !.apiKey = "option-key"],
               env |-> Undef, err |-> NoError,
               client |-> Constructor([NoOptions EXCEPT !.apiKey = "option-key"], Undef).client]
    /\ entry = "none"
    /\ op = "none"
    /\ args = NoArgs
    /\ call = NoCall
    /\ pc = "idle"
    /\ timer = "none"
    /\ requests = 0
    /\ wire = NoWire
    /\ resp = NoResp
    /\ cause = "none"
    /\ raised = NoError
    /\ outcome = Pending
    /\ result = NoResult
    /\ files \in SaveFiles
    /\ written = "none"
    /\ saved = "none"
    /\ tasks = NoTasks
    /\ buffer = NotCalled

NextSave ==
    \/ ToolkitSaveAudio
    \/ SaveAudioFromResult
    \/ AutoGenSaveAudio

SpecSave == InitSave /\ [][NextSave]_vars

\* one call of any operation of the client or of an adapter, the save helpers
\* included, on an empty file system
NextStorage ==
    \/ Next
    \/ NextSave

SpecStorage == Init /\ [][NextStorage]_vars

\* up to MaxTasks calls made on one constructed client, their steps interleaved
\* in any order
NextConcurrent ==
    \/ StartTask
    \/ TaskTimeout
    \/ TaskFetchRejects
    \/ TaskFetchResolves
    \/ TaskErrorBody
    \/ TaskBody
    \/ TaskReturn

SpecConcurrent == Init /\ [][NextConcurrent]_vars

\* the audio a 2xx response can carry: every sequence of at most MaxAudioLen
\* bytes over AudioBytes
MaxAudioLen == 4
AudioBytes == {0, 1, 77, 255}
AudioBuffers == UNION {[1..n -> AudioBytes] : n \in 0..MaxAudioLen}

\* generate or generateMultiVoice, called by the generic toolkit or by
\* LangVoiceOpenAITools.handleCall, has returned the audio x of a 200 response
InitAudio ==
    /\ ctor = [state |-> "ok", options |-> [NoOptions EXCEPT !.apiKey = "option-key"],
               env |-> Undef, err |-> NoError,
               client |-> Constructor([NoOptions EXCEPT !.apiKey = "option-key"], Undef).client]
    /\ \E e \in {"generic", "openai.handleCall"}, tool \in SpeechTools, x \in AudioBuffers :
          LET o == ToolOp(tool)
              a == [NoArgs EXCEPT !.text = Str(1)]
              options == IF e = "generic" THEN ToolkitOptions(tool, a)
                         ELSE OpenAIOptions(tool, a)
          IN  /\ entry = e
              /\ op = o
              /\ args = a
              /\ call = [NoCall EXCEPT !.tool = tool,
                                       !.input = IF e = "generic" THEN "object" ELSE "json"]
              /\ wire = [method |-> Method(o), url |-> ctor.client.baseUrl \o Endpoint(o),
                         apiKey |-> ctor.client.apiKey, hasBody |-> TRUE,
                         body |-> BuildRequest(o, options).req]
              /\ resp = [NoResp EXCEPT !.status = 200, !.body = x]
              /\ outcome = Returned(GenerateResponse(x, NoHeaders))
    /\ pc = "adapter"
    /\ timer = "cleared"
    /\ requests = 1
    /\ cause = "ok"
    /\ raised = NoError
    /\ result = NoResult
    /\ files = [p \in Paths |-> Absent]
    /\ written = "none"
    /\ saved = "none"
    /\ tasks = NoTasks
    /\ buffer = NotCalled

NextAudio ==
    \/ ToolkitReturn
    \/ HandleCallReturn
    \/ GetAudioBuffer

SpecAudio == InitAudio /\ [][NextAudio]_vars

-----------------------------------------------------------------------------
(* the claims *)

Settled == outcome.kind # "pending"

\* the speed the request model resolves: the supplied one, or 1.0 when omitted
ResolvedSpeed(s) == IF s.t = "undefined" THEN Num(DefaultSpeed) ELSE s
SpeedInRange(s) == s.t = "num" /\ s.n >= MinSpeed /\ s.n <= MaxSpeed
TextInRange(t) == t.t = "str" /\ t.len >= 1 /\ t.len <= MaxTextLen

\* C1: for every client operation and every non-2xx response status s, the
\* operation throws and returns no result: 401 gives an AuthenticationError, 429 a
\* RateLimitError, 400 a ValidationError, any other s an APIError with statusCode s
C1_StatusMapsToTypedError ==
    (Settled /\ resp.status # 0 /\ ~(resp.status \in 200..299)) =>
        /\ outcome.kind = "threw"
        /\ outcome.value = NoValue
        /\ outcome.err.cls = (CASE resp.status = 401 -> "AuthenticationError"
                                [] resp.status = 429 -> "RateLimitError"
                                [] resp.status = 400 -> "ValidationError"
                                [] OTHER -> "APIError")
        /\ outcome.err.statusCode = resp.status

C1_Witness ==
    /\ Settled
    /\ op = "listVoices"
    /\ resp.status = 400
    /\ outcome.err.cls = "ValidationError"

\* C2: constructing a GenerateRequest or a MultiVoiceRequest succeeds exactly when
\* the text length is in 1..5000 and the resolved speed is in 0.5..2.0
C2_ConstructionSucceedsIffValid ==
    (entry = "client" /\ op \in BinaryOps) =>
        ((cause # "validation")
            <=> (TextInRange(args.text) /\ SpeedInRange(ResolvedSpeed(args.speed))))

\* C3: every client operation that issues an HTTP request terminates: it never
\* waits indefinitely, whether the remote side stalls before the headers or
\* while delivering the body
C3_EveryOperationTerminates ==
    (pc \in {"fetch", "body", "errorBody"}) ~> (pc \notin {"fetch", "body", "errorBody"})

\* C4: a timeout while the request is in flight throws APIError('Request timeout',
\* 408); any other failure of the HTTP call is rethrown unchanged and is never
\* reported as a timeout, and a typed HTTP-status error is never converted
C4_TimeoutDistinctFromOtherFailures ==
    (Settled /\ outcome.kind = "threw" /\ requests > 0) =>
        /\ (cause = "timeout") => outcome.err = APIError("Request timeout", 408)
        /\ (cause = "network") =>
              /\ outcome.err = raised
              /\ outcome.err.cls \in {"TypeError", "SyntaxError"}
        /\ (cause = "status") =>
              /\ outcome.err = raised
              /\ outcome.err.statusCode = resp.status
              /\ outcome.err.message # "Request timeout"

C4_Witness ==
    /\ cause = "timeout"
    /\ outcome.kind = "threw"
    /\ outcome.err.statusCode = 408
    /\ timer = "fired"

\* C5: every client operation issues at most one HTTP request per invocation:
\* after the request fails the operation throws without issuing another
C5_AtMostOneRequest ==
    /\ requests <= 1
    /\ (cause \in {"timeout", "network", "status"}) =>
          (requests = 1 /\ outcome.kind = "threw" /\ pc # "fetch")

C5_Witness ==
    /\ cause = "network"
    /\ outcome.kind = "threw"
    /\ requests = 1

\* C6: generate or generateMultiVoice called with empty text, text longer than 5000
\* characters or a speed outside 0.5..2.0 fails without any HTTP request issued
C6_InvalidInputIssuesNoRequest ==
    (entry = "client" /\ op \in BinaryOps
        /\ ~(TextInRange(args.text) /\ SpeedInRange(ResolvedSpeed(args.speed)))) =>
        /\ requests = 0
        /\ outcome.kind = "threw"

\* C7: a local request-construction violation in generate or generateMultiVoice is
\* raised as a ValidationError, the class an HTTP 400 response produces
C7_LocalViolationIsValidationError ==
    (cause = "validation" /\ outcome.kind = "threw") =>
        outcome.err.cls = "ValidationError"

\* C8: constructing a LangVoiceClient throws an AuthenticationError exactly when
\* neither options.apiKey nor LANGVOICE_API_KEY holds a non-empty key; otherwise
\* the client uses options.apiKey when given, the environment value when not
C8_ConstructorKeyResolution ==
    (ctor.state # "none") =>
        LET hasOption == ctor.options.apiKey \notin {Undef, ""}
            hasEnv == ctor.env \notin {NoProcess, Undef, ""}
        IN  /\ (ctor.state = "threw") <=> (~hasOption /\ ~hasEnv)
            /\ (ctor.state = "threw") => ctor.err.cls = "AuthenticationError"
            /\ (ctor.state = "ok") =>
                  /\ ctor.client.apiKey = (IF hasOption THEN ctor.options.apiKey ELSE ctor.env)
                  /\ (requests > 0) => wire.apiKey = ctor.client.apiKey

C8_Witness ==
    /\ ctor.state = "ok"
    /\ ctor.options.apiKey = ""
    /\ ctor.env = "env-key"
    /\ requests = 1
    /\ wire.apiKey = "env-key"

IsDigits(s) == Len(s) >= 1 /\ \A i \in 1..Len(s) : s[i] \in Digits

\* a numeral as JavaScript reads one: digits, digits "." [digits], or "." digits
IsNumeral(s) ==
    \/ IsDigits(s)
    \/ \E k \in 1..Len(s) :
          /\ s[k] = "."
          /\ \A i \in 1..Len(s) : i # k => s[i] \in Digits
          /\ Len(s) >= 2

\* the value of a numeral
NumeralValue(s) ==
    LET dots == {k \in 1..Len(s) : s[k] = "."}
        k == IF dots = {} THEN Len(s) + 1 ELSE CHOOSE d \in dots : TRUE
        nf == IF dots = {} THEN 0 ELSE Len(s) - k
    IN  Normalize(DigitsValue(SubSeq(s, 1, k - 1)) * Pow10(nf)
                    + DigitsValue(SubSeq(s, k + 1, Len(s))), Pow10(nf))

WithoutUnit(s) == IF Len(s) >= 1 /\ s[Len(s)] = "s" THEN SubSeq(s, 1, Len(s) - 1) ELSE s

\* the value of the longest prefix of s that is a numeral, undefined without one
LeadingNumber(s) ==
    LET ns == {n \in 1..Len(s) : IsNumeral(SubSeq(s, 1, n))}
    IN  IF ns = {} THEN NoValueNum
        ELSE NumeralValue(SubSeq(s, 1, CHOOSE n \in ns : \A m \in ns : m <= n))

\* the integer value of the longest prefix of s made of digits, undefined without one
LeadingInteger(s) ==
    LET ns == {n \in 1..Len(s) : IsDigits(SubSeq(s, 1, n))}
    IN  IF ns = {} THEN NoValueNum
        ELSE NumeralValue(SubSeq(s, 1, CHOOSE n \in ns : \A m \in ns : m <= n))

\* s without its first "s"
WithoutFirstS(s) ==
    LET ps == {i \in 1..Len(s) : s[i] = "s"}
    IN  IF ps = {} THEN s
        ELSE LET i == CHOOSE p \in ps : \A q \in ps : p <= q
             IN  [j \in 1..(Len(s) - 1) |-> IF j < i THEN s[j] ELSE s[j + 1]]

C10_AdaptersSendDefaultRequest ==
    (/\ entry \notin {"none", "client"}
     /\ call.tool = TOOL_NAMES.TTS
     /\ args.voice = Undef /\ args.language = Undef /\ args.speed = NoNum
     /\ cause \notin {"construction", "arguments"}) =>
        LET direct == GenerateRequest([NoArgs EXCEPT !.text = args.text])
        IN  /\ (requests = 1) <=> direct.ok
            /\ direct.ok =>
                  /\ wire.method = "POST"
                  /\ wire.url = ctor.client.baseUrl \o "/tts/generate"
                  /\ wire.hasBody
                  /\ wire.body = direct.req
                  /\ wire.body = [text |-> args.text, voice |-> "heart",
                                  language |-> "american_english",
                                  speed |-> Num(DefaultSpeed)]

C10_Witness ==
    /\ entry = "generic.handleToolCall"
    /\ call.tool = TOOL_NAMES.TTS
    /\ args = [NoArgs EXCEPT !.text = Str(MaxTextLen)]
    /\ requests = 1
    /\ wire.body = [text |-> Str(MaxTextLen), voice |-> "heart",
                    language |-> "american_english", speed |-> Num(DefaultSpeed)]
    /\ pc = "done"
    /\ result.success

\* the adapter entry points
AdapterEntries ==
    {"generic", "generic.handleToolCall", "openai.handleOpenAIToolCall", "openai.handleCall",
     "langchain.call", "autogen.handler", "autogen.handleFunctionCall", "autogen.direct"}

\* an adapter entry point was called with a tool name and arguments it took in
AdapterSpeechCall ==
    /\ entry \in AdapterEntries
    /\ call.tool \in SpeechTools
    /\ cause \notin {"construction", "arguments"}

\* C11: for every argument set (text, voice, language, speed) an adapter's
\* text-to-speech or multi-voice operation sends a request exactly when the direct
\* client call with these arguments sends one, and the request carries the voice,
\* language and speed the request model resolves from them; a speed outside
\* 0.5..2.0 (0 included) ends in a failure result and never in a request.  (A NaN
\* speed is left out: what the request model does with it is the matter of C2.)
C11_AdapterAgreesWithDirectCall ==
    (AdapterSpeechCall /\ args.speed.t # "nan") =>
        LET direct == BuildRequest(ToolOp(call.tool), args)
        IN  /\ (requests = 1) <=> direct.ok
            /\ (requests = 1) => wire.body = direct.req
            /\ ~SpeedInRange(ResolvedSpeed(args.speed)) =>
                  /\ requests = 0
                  /\ (pc = "done") => ~result.success
            /\ (pc = "done" /\ result.success) => direct.ok

\* the prefix of the string a LangChain tool returns on an error
LangChainErrorPrefix(tool) ==
    CASE tool = TOOL_NAMES.TTS -> "Error generating speech: "
      [] tool = TOOL_NAMES.MULTI_VOICE -> "Error generating multi-voice speech: "
      [] tool = TOOL_NAMES.LIST_VOICES -> "Error listing voices: "
      [] tool = TOOL_NAMES.LIST_LANGUAGES -> "Error listing languages: "

\* C12: when the client operation throws (a typed status error, a timeout, a
\* network error or a local request-validation error), the adapter operation
\* returns its failure envelope with the error's message instead of throwing:
\* {success: false, error} for the generic adapter and the AutoGen direct methods,
\* a JSON string of it for the OpenAI and AutoGen handlers, an error-prefixed
\* string for the LangChain tools
C12_AdapterReturnsFailureEnvelope ==
    (entry \in AdapterEntries /\ pc = "done" /\ outcome.kind = "threw") =>
        /\ result.shape # "threw"
        /\ ~result.success
        /\ result.error = outcome.err.message
        /\ result.error # ""
        /\ (entry \in {"generic", "generic.handleToolCall", "autogen.direct",
                       "openai.handleCall"}) =>
              (result.shape = "object" /\ result.keys = {"success", "error"})
        /\ (entry \in {"openai.handleOpenAIToolCall", "autogen.handler",
                       "autogen.handleFunctionCall"}) =>
              (result.shape = "json" /\ result.keys = {"success", "error"})
        /\ (entry = "langchain.call") =>
              (result.shape = "string" /\ result.message = LangChainErrorPrefix(call.tool))

C12_Witness ==
    /\ entry = "langchain.call"
    /\ call.tool = TOOL_NAMES.MULTI_VOICE
    /\ pc = "done"
    /\ outcome.kind = "threw"
    /\ outcome.err.cls = "RateLimitError"
    /\ result.shape = "string"
    /\ result.error = "server error message"

\* the dispatch-by-name entry points
DispatchEntries ==
    {"generic.handleToolCall", "openai.handleOpenAIToolCall", "autogen.handleFunctionCall"}

\* C13: with an API key configured, a dispatch-by-name entry point called with a
\* name that is none of the four tool names returns a failure result (success
\* false) whose error message contains the name; it does not throw and issues no
\* HTTP request
C13_UnknownNameIsFailureResult ==
    (/\ entry \in DispatchEntries
     /\ call.tool \notin ToolNames
     /\ cause \notin {"construction", "arguments"}) =>
        /\ pc = "done"
        /\ requests = 0
        /\ result.shape \in {"object", "json"}
        /\ ~result.success
        /\ "error" \in result.keys
        /\ result.error \in {"Unknown tool: " \o call.tool, "Unknown function: " \o call.tool}

\* C14: LangVoiceOpenAITools.handleCall never rejects: for every tool-call object,
\* one whose function.arguments is not valid JSON included, it resolves to a
\* result object, with success false and an error message when the arguments
\* cannot be parsed
C14_HandleCallNeverRejects ==
    (entry = "openai.handleCall" /\ pc = "done") =>
        /\ result.shape = "object"
        /\ "success" \in result.keys
        /\ (call.input = "badjson") =>
              (~result.success /\ "error" \in result.keys /\ result.error # "")

\* C15: LangVoiceAutoGenTools.handleFunctionCall never rejects and always resolves
\* to a JSON-encoded string, whether arguments is an object, a valid JSON string
\* or a string that is not valid JSON; a valid JSON string gives the result of the
\* object it encodes, unparsable arguments give a success:false result.  (Names
\* that Object.prototype defines are left out: they are the matter of C13.)
C15_HandleFunctionCallNeverRejects ==
    (entry = "autogen.handleFunctionCall" /\ pc = "done" /\ call.tool # "toString") =>
        /\ result.shape = "json"
        /\ "success" \in result.keys
        /\ (call.input = "badjson") =>
              (~result.success /\ "error" \in result.keys /\ result.error # "")
        /\ (call.input = "json" /\ call.tool \in ToolNames) =>
              result = JsonStringify(AutoGenHandlerResult(call.tool, outcome,
                          OutputPath(call.output_file, call.outputFile),
                          AutoSave(call.autoSave), written = "ok"))

\* C16: handleOpenAIToolCall never throws: when no API key is available (neither
\* the apiKey argument nor the environment variable) it returns a JSON string with
\* success false and the authentication error's message, as it does for the
\* errors raised during the operation
C16_HandleOpenAIToolCallNeverThrows ==
    (entry = "openai.handleOpenAIToolCall" /\ pc = "done") =>
        LET noKey == StrOr(call.apiKey, getEnvApiKey(ctor.env)) = ""
        IN  /\ result.shape = "json"
            /\ "success" \in result.keys
            /\ noKey =>
                  /\ ~result.success
                  /\ requests = 0
                  /\ result.error = AuthenticationError("API key is required. Pass apiKey in options or set LANGVOICE_API_KEY environment variable.").message

\* writeFileSync was called by this invocation's adapter and threw
WriteFailed == pc = "done" /\ written = "failed"

\* C17: in the LangChain text-to-speech and multi-voice tools and the AutoGen
\* text-to-speech and multi-voice handlers, when the audio has been generated but
\* writing the output file fails, the call does not throw and does not become a
\* failure: it reports success (the success marker, or success: true) together
\* with the duration already computed
C17_WriteFailureIsNotAFailure ==
    WriteFailed =>
        /\ entry \in {"langchain.call", "autogen.handler", "autogen.handleFunctionCall"}
        /\ call.tool \in SpeechTools
        /\ outcome.kind = "returned"
        /\ result.shape = IF entry = "langchain.call" THEN "string" ELSE "json"
        /\ result.success
        /\ result.error = ""
        /\ (entry = "langchain.call") => result.marker = "check"
        /\ (entry # "langchain.call") => "success" \in result.keys
        /\ result.duration = outcome.value.duration
        /\ (entry = "langchain.call" \/ outcome.value.duration.t # "undefined")
              => "duration" \in result.keys

\* the write of a generated multi-voice audio failed in an AutoGen handler, and
\* the response carried a duration
C17_Witness ==
    /\ WriteFailed
    /\ entry = "autogen.handler"
    /\ call.tool = TOOL_NAMES.MULTI_VOICE
    /\ outcome.value.duration.t = "num"
    /\ result.success

\* the same in the LangChain text-to-speech tool
C17_WitnessLangChain ==
    /\ WriteFailed
    /\ entry = "langchain.call"
    /\ call.tool = TOOL_NAMES.TTS
    /\ outcome.value.duration.t = "num"

\* C18: when an adapter was asked to persist audio and the write fails, the
\* result it returns contains a truncated inline preview of the audio (the first
\* PreviewLen characters of its base64 encoding), for the text-to-speech and for
\* the multi-voice operation of both the LangChain and the AutoGen adapter
C18_WriteFailureReturnsPreview ==
    WriteFailed =>
        /\ (result.keys \cap {"preview", "audioBase64Preview"}) # {}
        /\ result.preview = Preview(outcome.value.audioData)

SaveEntries == {"generic.saveAudio", "openai.saveAudioFromResult", "autogen.saveAudio"}

\* the path a save helper was asked to write: the outputPath argument, and for
\* the AutoGen adapter the configured outputFile when no path is given
SaveTarget(e, c) ==
    IF e = "autogen.saveAudio" /\ c.output_file \in {Undef, ""}
    THEN (IF c.outputFile \in {Undef, ""} THEN "output.mp3" ELSE c.outputFile)
    ELSE c.output_file

\* C19: saveAudio (generic and AutoGen adapters) and saveAudioFromResult (OpenAI
\* adapter) never throw: they return false without writing anything when
\* result.success is false or audioBase64 is absent, return false when the write
\* fails, and return true only after the base64-decoded audio has been written to
\* the target path (AutoGen falls back to the configured outputFile when no path
\* is given)
C19_SaveAudioReturnsBoolean ==
    [][(pc = "idle" /\ pc' = "done" /\ entry' \in SaveEntries) =>
          LET r == result'
              target == SaveTarget(entry', call')
          IN  /\ saved' \in {"true", "false"}
              /\ (~r.success \/ "audioBase64" \notin r.keys) =>
                    /\ saved' = "false"
                    /\ written' = "none"
                    /\ files' = files
              /\ (written' = "failed") => (saved' = "false" /\ files' = files)
              /\ (saved' = "true") =>
                    /\ written' = "ok"
                    /\ target \in Paths
                    /\ \A p \in Paths \ {target} : files'[p] = files[p]
                    /\ files'[target] # Absent
                    /\ \A d \in SaveAudioSamples :
                          (r.audioBase64 = toBase64(d)) => files'[target] = d
                    /\ (r.audioBase64 = Unpadded) => files'[target] = <<255>>]_vars

\* the AutoGen saveAudio was called without a path on a successful result and
\* wrote the decoded audio to the configured outputFile over an older recording
C19_Witness ==
    /\ pc = "done"
    /\ entry = "autogen.saveAudio"
    /\ call.output_file = Undef
    /\ call.outputFile = "speech.mp3"
    /\ saved = "true"
    /\ result.audioBuffer = <<73, 68, 51, 4>>
    /\ files = [p \in Paths |-> IF p = "speech.mp3" THEN <<73, 68, 51, 4>>
                                ELSE IF p = "call.mp3" THEN <<1, 2>> ELSE Absent]

\* a helper returned false for a result without audio, or for a failed write
C19_WitnessFalse ==
    /\ pc = "done"
    /\ entry = "openai.saveAudioFromResult"
    /\ saved = "false"
    /\ written = "failed"

NoFiles == [p \in Paths |-> Absent]

\* the path a speech call of the LangChain or AutoGen adapter writes: the
\* output_file argument of the call, or the outputFile the adapter was configured
\* with, or the default output.mp3
WriteTarget(e, c) ==
    IF e = "langchain.call"
    THEN (IF c.outputFile \in {Undef, ""} THEN "output.mp3" ELSE c.outputFile)
    ELSE IF c.output_file \notin {Undef, ""} THEN c.output_file
    ELSE IF c.outputFile \in {Undef, ""} THEN "output.mp3"
    ELSE c.outputFile

\* a text-to-speech or multi-voice call of an adapter that persists audio
\* succeeded, and the file system holds its audio at the target path and nothing else
SpeechCallWrote ==
    /\ pc = "done"
    /\ entry \in {"langchain.call", "autogen.handler", "autogen.handleFunctionCall"}
    /\ call.tool \in SpeechTools
    /\ outcome.kind = "returned"
    /\ result.success
    /\ files = [NoFiles EXCEPT ![WriteTarget(entry, call)] = outcome.value.audioData]

\* a save helper was given a successful result with audio, and the file system
\* holds the decoded audio at the target path and nothing else
SaveHelperWrote ==
    /\ pc = "done"
    /\ entry \in SaveEntries
    /\ result.success
    /\ saved = "true"
    /\ files = [NoFiles EXCEPT ![SaveTarget(entry, call)] = BufferFromBase64(result.audioBase64)]

\* list operations, failed generations, unknown names, the client and the
\* tool-call operations of the generic and OpenAI adapters
NeverWrites ==
    \/ entry \in {"none", "client", "generic", "generic.handleToolCall",
                  "openai.handleOpenAIToolCall", "openai.handleCall", "autogen.direct"}
    \/ call.tool \notin SpeechTools
    \/ outcome.kind # "returned"

\* C20 as stated: no operation writes to storage except a successful
\* text-to-speech or multi-voice call, which writes only the audio file at the
\* configured or caller-supplied path
C20_OnlySpeechCallsWrite ==
    /\ (files # NoFiles) => SpeechCallWrote
    /\ (entry \notin SaveEntries /\ NeverWrites) => files = NoFiles

\* C20, amended: no operation writes to storage except a successful
\* text-to-speech or multi-voice call of the LangChain or AutoGen adapter and the
\* explicit save helpers, each of which writes only the audio at the configured or
\* caller-supplied path; list operations, failed generations, unknown-name calls,
\* and all tool-call operations of the generic and OpenAI adapters leave the file
\* system unchanged
C20_OnlyAudioIsWritten ==
    /\ (files # NoFiles) => (SpeechCallWrote \/ SaveHelperWrote)
    /\ (entry \notin SaveEntries /\ NeverWrites) => files = NoFiles

\* handleFunctionCall ran a text-to-speech call with an output_file argument and
\* the audio is at that path
C20_Witness ==
    /\ SpeechCallWrote
    /\ entry = "autogen.handleFunctionCall"
    /\ call.tool = TOOL_NAMES.TTS
    /\ call.output_file = "call.mp3"
    /\ written = "ok"
    /\ files["call.mp3"] = <<255, 0, 16>>

\* the request of task t ended by the timeout
TimedOut(t) == t.outcome.kind = "threw" /\ t.outcome.err.statusCode = 408

\* C21: when several operations run concurrently on the same client or adapter,
\* each request has its own cancellation controller and timer: a timeout or
\* failure of one operation never cancels another or changes its result, and the
\* client's key, base URL and timeout are never modified after construction
C21_ConcurrentRequestsAreIndependent ==
    [][/\ ctor' = ctor
       /\ \A i \in DOMAIN tasks :
             /\ tasks'[i].controller = tasks[i].controller
             /\ \A j \in DOMAIN tasks \ {i} :
                   /\ tasks[i].controller # tasks[j].controller
                   /\ (tasks'[i] # tasks[i]) => tasks'[j] = tasks[j]
             /\ (tasks[i].outcome.kind # "pending") => tasks'[i].outcome = tasks[i].outcome
             /\ (TimedOut(tasks'[i]) /\ ~TimedOut(tasks[i])) =>
                   (tasks[i].timer = "armed" /\ tasks'[i].timer = "fired")
             /\ tasks'[i].wire = tasks[i].wire
             /\ tasks[i].wire.apiKey = ctor.client.apiKey]_vars

\* one request timed out while the other call, made on the same client, returned
\* its response
C21_Witness ==
    /\ Len(tasks) = 2
    /\ TimedOut(tasks[1])
    /\ tasks[1].timer = "fired"
    /\ tasks[2].outcome.kind = "returned"
    /\ tasks[2].timer = "cleared"
    /\ tasks[2].pc = "done"

ListOps == {"listVoices", "listLanguages"}

\* a list operation got a body with an array under its key
ListReturned == pc = "done" /\ op \in ListOps /\ resp.json.kind = "list"

\* C22: listVoices and listLanguages return one entry per element of the
\* response body's voices / languages array, in the same order, with each id and
\* name preserved verbatim; the adapters' list operations return the same entries
\* in the same order reduced to {id, name} (AutoGen additionally reports count
\* equal to the number of entries)
C22_ListsPreserveEntries ==
    ListReturned =>
        LET body == resp.json.items
            got == outcome.value.list
        IN  /\ outcome.kind = "returned"
            /\ Len(got) = Len(body)
            /\ \A i \in 1..Len(body) :
                  got[i].id = body[i].id /\ got[i].name = body[i].name
            /\ (entry # "client") =>
                  /\ result.success
                  /\ Len(result.list) = Len(body)
                  /\ \A i \in 1..Len(body) :
                        /\ DOMAIN result.list[i] = {"id", "name"}
                        /\ result.list[i].id = body[i].id
                        /\ result.list[i].name = body[i].name
            /\ (entry \in {"autogen.handler", "autogen.handleFunctionCall"}) =>
                  ("count" \in result.keys /\ result.count = Len(body))

\* the AutoGen list handler returned the three entries of the body, in its order
C22_Witness ==
    /\ ListReturned
    /\ entry = "autogen.handler"
    /\ op = "listVoices"
    /\ Len(resp.json.items) = 3
    /\ result.count = 3
    /\ result.list[1].id = "michael"
    /\ result.list[2].id = "heart"

FourTools ==
    <<"langvoice_text_to_speech", "langvoice_multi_voice_speech", "langvoice_list_voices",
      "langvoice_list_languages">>

Range(seq) == {seq[i] : i \in DOMAIN seq}

\* the entry points that take the name of a tool
NamedEntries == DispatchEntries \cup {"openai.handleCall"}

\* C23: each adapter advertises exactly four tools named
\* langvoice_text_to_speech, langvoice_multi_voice_speech, langvoice_list_voices
\* and langvoice_list_languages, in this order (generic getFunctionSchemas and
\* getOpenAITools, OpenAI getOpenAITools, AutoGen getFunctionDefinitions and
\* getFunctionMap, LangChain getTools), and every advertised name is accepted by
\* that adapter's dispatch-by-name entry point rather than answered as unknown
C23_FourToolsAdvertisedAndAccepted ==
    /\ getFunctionSchemas = FourTools
    /\ ToolkitGetOpenAITools = FourTools
    /\ getOpenAITools = FourTools
    /\ getFunctionDefinitions = FourTools
    /\ getFunctionMap = FourTools
    /\ getTools = FourTools
    /\ (pc = "done" /\ entry \in NamedEntries) =>
          /\ (call.tool \in Range(Advertised(entry))) => cause # "unknown"
          /\ (cause = "unknown") => call.tool \notin Range(FourTools)
    /\ (pc \in {"fetch", "body", "errorBody", "adapter"} /\ entry \in NamedEntries) =>
          /\ call.tool \in Range(Advertised(entry))
          /\ op = ToolOp(call.tool)

\* handleFunctionCall was given the last advertised name and ran the list
\* operation behind it
C23_Witness ==
    /\ pc = "done"
    /\ entry = "autogen.handleFunctionCall"
    /\ call.tool = getFunctionDefinitions[4]
    /\ op = "listLanguages"
    /\ cause = "ok"
    /\ result.success

\* C24: generateCloned(text, voiceSampleBase64, speed) follows the same contract
\* as generate: with text of 1..MaxTextLen characters and speed in 0.5..2.0 it
\* issues one authenticated POST to the voice-cloning endpoint carrying the text,
\* the base64 voice sample and the speed, and returns a GenerateResponse built
\* from the binary body and the metadata headers; with invalid text or speed it
\* fails before any request is issued
C24_GenerateClonedFollowsGenerate ==
    (op = "generateCloned" /\ pc = "done") =>
        IF TextInRange(args.text) /\ SpeedInRange(ResolvedSpeed(args.speed))
        THEN /\ requests = 1
             /\ wire.method = "POST"
             /\ wire.url = ctor.client.baseUrl \o "/tts/generate-cloned"
             /\ wire.apiKey = ctor.client.apiKey
             /\ wire.body.text = args.text
             /\ wire.body.speed = ResolvedSpeed(args.speed)
             /\ (cause = "ok") =>
                   (outcome.kind = "returned"
                      /\ outcome.value = GenerateResponse(resp.body, resp.headers))
        ELSE /\ requests = 0
             /\ outcome.kind = "threw"

\* C25: for every audio byte buffer x, decoding GenerateResponse.toBase64() yields
\* x again, and for every successful adapter result carrying audioBase64,
\* getAudioBuffer(result) equals the audioData of the client response it was
\* built from
C25_Base64RoundTrips ==
    (pc = "done" /\ entry \in {"generic", "generic.handleToolCall", "openai.handleCall"}
        /\ result.success /\ "audioBase64" \in result.keys) =>
        /\ BufferFromBase64(result.audioBase64) = outcome.value.audioData
        /\ (buffer # NotCalled) => buffer = outcome.value.audioData

\* a LangChain speech tool was run on a raw string and has returned
StringCallDone ==
    /\ pc = "done"
    /\ entry = "langchain.call"
    /\ call.tool \in SpeechTools
    /\ call.input = "string"

\* C26: for the LangChain text-to-speech and multi-voice tools, call(s) with a raw
\* string s behaves exactly like call({text: s}): the same request (text s,
\* default voice, language and speed) is sent and the same status string is
\* returned; invoke(input) is equivalent to call(input)
C26_StringInputIsTextObject ==
    /\ StringCallDone =>
          LET s == args.text
              object == LangChainOptions(call.tool, "object", [NoArgs EXCEPT !.text = s])
              built == BuildRequest(op, object)
          IN  /\ (requests = 1) <=> built.ok
              /\ (requests = 1) =>
                    /\ wire.body = built.req
                    /\ wire.body.text = s
                    /\ wire.body.voice = IF call.tool = TOOL_NAMES.TTS THEN "heart" ELSE Undef
                    /\ wire.body.language = "american_english"
                    /\ wire.body.speed = Num(DefaultSpeed)
              /\ (requests = 0) => outcome = Threw(built.err)
              /\ result = LangChainResult(call.tool, outcome,
                                          LangChainOutputFile(call.tool, call.outputFile),
                                          written = "ok")
    /\ (pc = "done" /\ entry = "langchain.call" /\ call.tool \in SpeechTools) =>
          /\ (requests = 1) =>
                wire.body = BuildRequest(op, LangChainOptions(call.tool, "object",
                                [args EXCEPT !.text = args.text])).req
          /\ result = LangChainResult(call.tool, outcome,
                                      LangChainOutputFile(call.tool, call.outputFile),
                                      written = "ok")

\* invoke was given a raw string, the request went out and the audio was saved
C26_Witness ==
    /\ StringCallDone
    /\ call.via = "invoke"
    /\ call.tool = TOOL_NAMES.TTS
    /\ requests = 1
    /\ wire.body.text = Str(1)
    /\ written = "ok"
    /\ result.success

\* a speech handler of the AutoGen adapter has returned after the client gave
\* it audio
AutoGenSpeechReturned ==
    /\ pc = "done"
    /\ entry \in {"autogen.handler", "autogen.handleFunctionCall"}
    /\ call.tool \in SpeechTools
    /\ outcome.kind = "returned"

\* the path C27 names: the output_file argument when it is non-empty, otherwise
\* the configured outputFile, otherwise 'output.mp3'
C27_SavePath ==
    IF call.output_file \notin {Undef, ""} THEN call.output_file
    ELSE IF call.outputFile \notin {Undef, ""} THEN call.outputFile
    ELSE "output.mp3"

\* C27: in the AutoGen text-to-speech and multi-voice handlers the save path is
\* the call's output_file argument when it is non-empty, otherwise the outputFile
\* configured at construction, otherwise 'output.mp3'; autoSave defaults to true,
\* and when autoSave is false no file is written (even if output_file is
\* supplied) and the result carries the full base64 audio instead
C27_AutoGenSavePathAndAutoSave ==
    AutoGenSpeechReturned =>
        /\ (call.autoSave = "undefined") =>
              /\ written \in {"ok", "failed"}
              /\ (written = "ok") =>
                    /\ files = [p \in Paths |-> IF p = C27_SavePath
                                                THEN outcome.value.audioData ELSE Absent]
                    /\ "outputFile" \in result.keys
                    /\ result.outputFile = C27_SavePath
                    /\ "audioBase64" \notin result.keys
              /\ (written = "failed") => files = NoFiles
        /\ (call.autoSave = "false") =>
              /\ written = "none"
              /\ files = NoFiles
              /\ "outputFile" \notin result.keys
              /\ "audioBase64" \in result.keys
              /\ result.audioBase64 = toBase64(outcome.value.audioData)

\* the output_file argument won over a configured outputFile and the audio is there
C27_Witness ==
    /\ AutoGenSpeechReturned
    /\ call.autoSave = "undefined"
    /\ call.outputFile = "speech.mp3"
    /\ call.output_file = "call.mp3"
    /\ written = "ok"
    /\ files["call.mp3"] = outcome.value.audioData
    /\ files["speech.mp3"] = Absent

\* the empty output_file argument fell back to the default path
C27_WitnessDefault ==
    /\ AutoGenSpeechReturned
    /\ call.autoSave = "undefined"
    /\ call.outputFile = Undef
    /\ call.output_file = ""
    /\ written = "ok"
    /\ result.outputFile = "output.mp3"

\* autoSave false with an output_file argument: nothing written, full audio returned
C27_WitnessNoSave ==
    /\ AutoGenSpeechReturned
    /\ call.autoSave = "false"
    /\ call.output_file = "call.mp3"
    /\ files = NoFiles
    /\ result.audioBase64 # ""

\* request / requestBinary was entered and its promise has settled
RequestFinished == requests >= 1 /\ Settled

\* C28: after any client request finishes (with a result, with an HTTP error
\* status, with a network error, or by timeout) its timeout timer has been
\* cleared or has already fired: no timer of a finished request remains pending
C28_NoTimerOutlivesItsRequest ==
    /\ RequestFinished => timer \in {"cleared", "fired"}
    /\ (RequestFinished /\ cause = "timeout") => timer = "fired"
    /\ (RequestFinished /\ cause \in {"ok", "status", "network", "shape"}) =>
          timer = "cleared"
    /\ (timer = "armed") => (pc = "fetch" /\ ~Settled)

\* a request that failed while its body was being read, timer cleared
C28_Witness ==
    /\ RequestFinished
    /\ cause = "network"
    /\ resp.status = 200
    /\ timer = "cleared"

\* a request that ended by timeout
C28_WitnessTimeout == RequestFinished /\ cause = "timeout" /\ timer = "fired"

\* a request that was rejected before any response, timer cleared by the catch
C28_WitnessRejected ==
    /\ RequestFinished
    /\ cause = "network"
    /\ resp = NoResp
    /\ timer = "cleared"

\* textToSpeechHandler of the AutoGen adapter has returned its JSON string
TTSHandlerReturned ==
    /\ pc = "done"
    /\ entry \in {"autogen.handler", "autogen.handleFunctionCall"}
    /\ call.tool = TOOL_NAMES.TTS
    /\ op = "generate"

\* the three keys through which a result can carry the audio
AudioCarriers == {"outputFile", "audioBase64Preview", "audioBase64"}

\* C29: every successful result of the AutoGen text-to-speech handler carries
\* exactly one of outputFile (autoSave on and the write succeeded),
\* audioBase64Preview (autoSave on and the write failed) or audioBase64 with the
\* full audio (autoSave off); a failure result carries none of them and always
\* carries an error message
C29_ExactlyOneAudioCarrier ==
    TTSHandlerReturned =>
        /\ result.shape = "json"
        /\ "success" \in result.keys
        /\ result.success <=> outcome.kind = "returned"
        /\ result.success =>
              /\ Cardinality(result.keys \cap AudioCarriers) = 1
              /\ ("outputFile" \in result.keys) <=>
                    (call.autoSave # "false" /\ written = "ok")
              /\ ("audioBase64Preview" \in result.keys) <=>
                    (call.autoSave # "false" /\ written = "failed")
              /\ ("audioBase64" \in result.keys) <=> (call.autoSave = "false")
              /\ ("outputFile" \in result.keys) => result.outputFile \in Paths
              /\ ("audioBase64Preview" \in result.keys) =>
                    result.preview = Preview(outcome.value.audioData)
              /\ ("audioBase64" \in result.keys) =>
                    result.audioBase64 = toBase64(outcome.value.audioData)
              /\ "error" \notin result.keys
        /\ ~result.success =>
              /\ result.keys \cap AudioCarriers = {}
              /\ "error" \in result.keys
              /\ result.error # ""
              /\ result.error # Undef

\* a successful result that carries the preview after a failed write
C29_Witness ==
    /\ TTSHandlerReturned
    /\ result.success
    /\ written = "failed"
    /\ result.keys \cap AudioCarriers = {"audioBase64Preview"}

\* a result with the full audio, autoSave off
C29_WitnessFull ==
    /\ TTSHandlerReturned
    /\ result.success
    /\ call.autoSave = "false"
    /\ result.keys \cap AudioCarriers = {"audioBase64"}

\* a failure result
C29_WitnessFailure ==
    /\ TTSHandlerReturned
    /\ ~result.success
    /\ cause = "status"
    /\ result.error = "server error message"

\* the output path a concurrent speech tool call resolves to
TaskPath(t) ==
    IF t.entry = "langchain.call"
    THEN (IF t.call.outputFile \notin {Undef, ""} THEN t.call.outputFile
          ELSE IF t.call.tool = TOOL_NAMES.TTS THEN "output.mp3" ELSE Undef)
    ELSE (IF t.call.output_file \notin {Undef, ""} THEN t.call.output_file
          ELSE IF t.call.outputFile \notin {Undef, ""} THEN t.call.outputFile
          ELSE "output.mp3")

\* the speech tool calls that have returned after a successful write to path p
Writers(p) ==
    {i \in DOMAIN tasks :
        /\ tasks[i].pc = "done"
        /\ tasks[i].call.tool \in SpeechTools
        /\ tasks[i].written = "ok"
        /\ TaskPath(tasks[i]) = p}

\* C30: if two text-to-speech or multi-voice tool calls that resolve to the same
\* output path run concurrently and both writes succeed, then once both have
\* returned the file holds the complete audio of exactly one of them, the one
\* whose write happened last, never a mixture of the two, while both calls report
\* that their audio was saved to that path
C30_LastWriterWins ==
    \A p \in Paths :
        (Cardinality(Writers(p)) >= 2) =>
            /\ \E last \in Writers(p) :
                  /\ \A i \in Writers(p) : tasks[i].order <= tasks[last].order
                  /\ files[p] = tasks[last].outcome.value.audioData
            /\ files[p] \in {tasks[i].outcome.value.audioData : i \in Writers(p)}
            /\ \A i \in Writers(p) :
                  /\ tasks[i].result.success
                  /\ "outputFile" \in tasks[i].result.keys
                  /\ tasks[i].result.outputFile = p
                  /\ \A j \in Writers(p) \ {i} : tasks[i].order # tasks[j].order

\* a LangChain call and an AutoGen call wrote different audio to 'output.mp3';
\* the one that started first wrote last
C30_Witness ==
    /\ Len(tasks) >= 2
    /\ Writers("output.mp3") = {1, 2}
    /\ tasks[1].entry = "langchain.call"
    /\ tasks[2].entry = "autogen.handler"
    /\ tasks[1].outcome.value.audioData # tasks[2].outcome.value.audioData
    /\ tasks[1].order > tasks[2].order
    /\ files["output.mp3"] = tasks[1].outcome.value.audioData

====
